---- MODULE Spec2Model ----
(***************************************************************************)
(* Branch synchronisation and streaming ingestion of the tree-gpt client.  *)
(* ChatPane (path cache, send / stream state machine) and the Home page    *)
(* (active tree, active node, graph) are modelled as one state machine.    *)
(* One action is one turn of the event loop: the handler, the state        *)
(* updates it batches, the render and the effects the render triggers.     *)
(***************************************************************************)
EXTENDS Integers, Sequences, FiniteSets, TLC

\* ------------------------------------------------------------------ bounds
MaxSends == 2
MaxFrames == 2
MaxLines == 2
MaxClock == 1
MaxGestures == 2
MaxListGestures == 3
MaxSteps == 8

\* ------------------------------------------------------------- id universe
\* Every id is a record [k, n] so that ids of different origin compare.
Null == [k |-> "null", n |-> 0]
RootNode == [k |-> "__root__", n |-> 0]
NoTree == "null"
NoTreeKey == "__no_tree__"
SrvId(i) == [k |-> "srv", n |-> i]
\* `pending-user-${stamp}` / `pending-assistant-${stamp}`
PendingUserId(stamp) == [k |-> "pending-user", n |-> stamp]
PendingAssistantId(stamp) == [k |-> "pending-assistant", n |-> stamp]
\* `${msg.role}-${idx}`
ShapedId(role, idx) == [k |-> role, n |-> idx]

Trees == <<"T1", "T2">>
TreeIds == {Trees[i] : i \in 1..Len(Trees)}
\* The conversations the service makes on request, in the order it makes them.
NewTrees == <<"T3">>
AllTreeIds == TreeIds \cup {NewTrees[i] : i \in 1..Len(NewTrees)}

\* The texts the user can type; " " is a whitespace character.  The clock
\* counts the milliseconds since the first send.
Texts == {<<" ", "h", " ">>}
\* What send() finds in the composer when it has nothing to send.
BlankTexts == {<<>>, <<" ">>}
Deltas == {"a", "b"}
EndContent == <<"z">>

\* ------------------------------------------------------------ map helpers
MapGet(f, k, d) == IF k \in DOMAIN f THEN f[k] ELSE d
MapSet(f, k, v) == [x \in (DOMAIN f) \cup {k} |-> IF x = k THEN v ELSE f[x]]
MapDel(f, k) == [x \in (DOMAIN f) \ {k} |-> f[x]]
EmptyMap == [x \in {} |-> <<>>]

\* The requests in flight: each request with the number of its responses
\* that are awaited.  The page keeps no record of them: a request that is
\* issued again while it is in flight is in flight twice.
NoReqs == [x \in {} |-> 0]
ReqAdd(reqs, r) == MapSet(reqs, r, MapGet(reqs, r, 0) + 1)
ReqDel(reqs, r) == IF reqs[r] > 1 THEN MapSet(reqs, r, reqs[r] - 1) ELSE MapDel(reqs, r)

SeqIds(s) == {s[i].id : i \in 1..Len(s)}
SeqSet(s) == {s[i] : i \in 1..Len(s)}

\* String.prototype.trim over the model's character sequences.
RECURSIVE TrimLeft(_)
TrimLeft(s) == IF s # <<>> /\ Head(s) = " " THEN TrimLeft(Tail(s)) ELSE s
RECURSIVE TrimRight(_)
TrimRight(s) ==
  IF s # <<>> /\ s[Len(s)] = " " THEN TrimRight(SubSeq(s, 1, Len(s) - 1)) ELSE s
Trim(s) == TrimRight(TrimLeft(s))

VARIABLES
  \* Home page
  activeTreeId, activeNodeId, graph, lastSelectedNode, graphReqs, treesLoaded,
  unreadMap, trees, blankTreeId, pendingTreeId, editingTreeId, isLoadingTrees, listReqs,
  \* ChatPane
  input, pathStore, pathSnapshot, activeKeyRef, sendingKeys, isSending,
  streamSessions, activeStream, pathReqs,
  \* one record per send() invocation (its closure and its session object)
  sends,
  \* environment
  now, server, nextSrv, srvTrees, nextTree, gestures, steps,
  \* ChatGraph: the component's refs and state, and the viewport of the flow
  view,
  \* the read loop of one response body
  reader,
  \* the last call of a function of the page or of ChatGraph, and its result
  call

\* the list of conversations, on the page and on the service, and the
\* requests of its handlers in flight
treeVars == <<treesLoaded, trees, pendingTreeId, editingTreeId, isLoadingTrees, listReqs,
              srvTrees, nextTree>>
homeVars == <<activeTreeId, activeNodeId, graph, blankTreeId, lastSelectedNode, graphReqs,
              treeVars, unreadMap>>
paneVars == <<input, pathStore, pathSnapshot, activeKeyRef, sendingKeys, isSending,
              streamSessions, activeStream, pathReqs>>
envVars == <<now, server, nextSrv, gestures>>
partVars == <<view, reader, call>>
vars == <<homeVars, paneVars, sends, envVars, steps, partVars>>

\* ---------------------------------------------------------------- server
\* The collaborator service: the nodes it has stored, in creation order.
ServerInit ==
  << [id |-> SrvId(1), tree |-> "T1", parent_id |-> Null, role |-> "user", content |-> <<"q">>],
     [id |-> SrvId(2), tree |-> "T2", parent_id |-> Null, role |-> "user", content |-> <<"p">>] >>
FirstFreshSrv == Len(ServerInit) + 1

ServerHas(srv, tree, id) == \E i \in 1..Len(srv) : srv[i].id = id /\ srv[i].tree = tree
ServerNode(srv, id) == srv[CHOOSE i \in 1..Len(srv) : srv[i].id = id]

\* GET /messages/path/{nodeId}: the ancestor chain from the root to the node.
RECURSIVE ServerPath(_, _)
ServerPath(srv, id) ==
  IF id = Null \/ ~(\E i \in 1..Len(srv) : srv[i].id = id) THEN <<>>
  ELSE LET nd == ServerNode(srv, id)
       IN Append(ServerPath(srv, nd.parent_id), [role |-> nd.role, content |-> nd.content])

\* GET /messages/graph/{treeId}
ServerGraph(srv, tree) ==
  LET mine == SelectSeq(srv, LAMBDA nd : nd.tree = tree)
      kids == SelectSeq(mine, LAMBDA nd : nd.parent_id # Null)
  IN [nodes |-> [i \in 1..Len(mine) |-> [id |-> mine[i].id, parent_id |-> mine[i].parent_id]],
      edges |-> [i \in 1..Len(kids) |-> [source |-> kids[i].parent_id, target |-> kids[i].id]]]

\* DELETE /trees/{treeId}: the tree and its nodes are gone.
ServerDelete(srv, tree) == SelectSeq(srv, LAMBDA nd : nd.tree # tree)

ServerKnows(srv, id) == \E i \in 1..Len(srv) : srv[i].id = id

\* the nodes from the root to the node
RECURSIVE ServerChain(_, _)
ServerChain(srv, id) ==
  IF id = Null \/ ~ServerKnows(srv, id) THEN <<>>
  ELSE Append(ServerChain(srv, ServerNode(srv, id).parent_id), ServerNode(srv, id))

\* DELETE /messages/{nodeId}: the node and, by cascade, its descendants are
\* gone.
ServerDeleteNode(srv, id) ==
  SelectSeq(srv, LAMBDA nd : \A i \in 1..Len(ServerChain(srv, nd.id)) :
                               ServerChain(srv, nd.id)[i].id # id)

\* POST /messages/branch/{nodeId}/fork: a new tree rooted at a copy of the
\* branch that ends at the node, the copies under fresh ids from first on.
ServerFork(srv, id, tree, first) ==
  LET chain == ServerChain(srv, id)
  IN srv \o [i \in 1..Len(chain) |->
              [id |-> SrvId(first + i - 1), tree |-> tree,
               parent_id |-> IF i = 1 THEN Null ELSE SrvId(first + i - 2),
               role |-> chain[i].role, content |-> chain[i].content]]

\* POST /messages/stream stores a node when it announces its id.
ServerStore(srv, id, tree, parent, role, content) ==
  IF id = Null \/ ~(parent = Null \/ ServerHas(srv, tree, parent)) THEN srv
  ELSE Append(srv, [id |-> id, tree |-> tree, parent_id |-> parent, role |-> role, content |-> content])

\* ------------------------------------------------------------- Home page
EmptyGraph == [nodes |-> <<>>, edges |-> <<>>]

\* rootId: graph.nodes.find((n) => !n.parent_id)?.id ?? null
rootId(g) ==
  IF \E i \in 1..Len(g.nodes) : g.nodes[i].parent_id = Null
  THEN g.nodes[CHOOSE i \in 1..Len(g.nodes) :
                 /\ g.nodes[i].parent_id = Null
                 /\ \A j \in 1..(i - 1) : g.nodes[j].parent_id # Null].id
  ELSE Null

GraphHas(g, id) == \E i \in 1..Len(g.nodes) : g.nodes[i].id = id

\* ----------------------------------------------------------- unread map
\* unreadMap: Map<treeId, Set<nodeId>>; a tree without unread replies has
\* no entry.
EmptyUnread == [t \in {} |-> {}]

\* unreadMap.get(treeId), the empty set for a tree without an entry
UnreadOf(m, treeId) == MapGet(m, treeId, {})

\* A marking that flips the node's membership.
markNodeUnreadToggle(m, treeId, nodeId) ==
  IF treeId = NoTree \/ nodeId = Null THEN m
  ELSE IF nodeId \in UnreadOf(m, treeId)
    THEN MapSet(m, treeId, UnreadOf(m, treeId) \ {nodeId})
  ELSE MapSet(m, treeId, UnreadOf(m, treeId) \cup {nodeId})

markNodeUnread(m, treeId, nodeId) ==
  IF treeId = NoTree \/ nodeId = Null THEN m
  ELSE IF treeId \in DOMAIN m /\ nodeId \in m[treeId] THEN m
  ELSE MapSet(m, treeId, UnreadOf(m, treeId) \cup {nodeId})

markNodeRead(m, treeId, nodeId) ==
  IF treeId = NoTree \/ nodeId = Null THEN m
  ELSE IF treeId \notin DOMAIN m \/ nodeId \notin m[treeId] THEN m
  ELSE LET nextSet == m[treeId] \ {nodeId}
       IN IF nextSet = {} THEN MapDel(m, treeId) ELSE MapSet(m, treeId, nextSet)

\* A pruning that filters the unread set of every tree.
pruneUnreadEveryTree(m, treeId, validIds) ==
  LET kept == {t \in DOMAIN m : m[t] \cap validIds # {}}
  IN [t \in kept |-> m[t] \cap validIds]

pruneUnreadForTree(m, treeId, validIds) ==
  IF treeId \notin DOMAIN m THEN m
  ELSE LET nextSet == m[treeId] \cap validIds
       IN IF nextSet = m[treeId] THEN m
          ELSE IF nextSet = {} THEN MapDel(m, treeId)
          ELSE MapSet(m, treeId, nextSet)

\* ---------------------------------------------------------------- ChatPane
\* effectiveNodeId = activeNodeId ?? defaultParentId ?? null, defaultParentId = rootId
effectiveNodeId(node, g) == IF node # Null THEN node ELSE rootId(g)

computeKey(tree, node) ==
  << IF tree = NoTree THEN NoTreeKey ELSE tree, IF node = Null THEN RootNode ELSE node >>

currentKeyOf(tree, node, g) == computeKey(tree, effectiveNodeId(node, g))
currentKey == currentKeyOf(activeTreeId, activeNodeId, graph)

\* The refs of ChatPane that a handler threads through its calls.
Pane(store, snap, akr, sending, sess) ==
  [store |-> store, snap |-> snap, akr |-> akr, sending |-> sending, sess |-> sess]
PaneNow == Pane(pathStore, pathSnapshot, activeKeyRef, sendingKeys, streamSessions)

\* updatePathForKey(key, updater): current is what the updater is given,
\* next is what it returned.
PathForKey(p, key) == MapGet(p.store, key, <<>>)

\* An update that shows every path it writes.
updatePathAndShow(p, key, next) ==
  [p EXCEPT !.store = MapSet(p.store, key, next), !.snap = next]

updatePathForKey(p, key, next) ==
  [p EXCEPT !.store = MapSet(p.store, key, next),
            !.snap = IF key = p.akr THEN next ELSE p.snap]

\* response.path.map((msg, idx) => ({...msg, pending: false, id: `${msg.role}-${idx}`}))
ShapePath(path) ==
  [i \in 1..Len(path) |->
     [role |-> path[i].role, content |-> path[i].content, pending |-> FALSE,
      id |-> ShapedId(path[i].role, i - 1)]]

\* ---------------------------------------------------------------- ChatGraph
NODE_HORIZONTAL_GAP == 260
NODE_VERTICAL_GAP == 160
GridColumns == 4

\* Bounds of the inputs a function of ChatGraph is applied to.
MaxNodes == 5
MaxEdges == 2
MaxRuns == 2
MaxCoord == 3

Max2(a, b) == IF a >= b THEN a ELSE b
Min2(a, b) == IF a <= b THEN a ELSE b

\* childrenMap.get(id) ?? []: the targets of the edges whose source is id, in
\* edge order; an edge whose source is not a node of the list is skipped.
ChildrenOf(data, id) ==
  IF ~GraphHas(data, id) THEN <<>>
  ELSE LET out == SelectSeq(data.edges, LAMBDA e : e.source = id)
       IN [i \in 1..Len(out) |-> out[i].target]

\* A layout for which no node has a parent: every node is a root.
HasParentNone(data) == {}

\* hasParent
HasParent(data) == {data.edges[i].target : i \in 1..Len(data.edges)}

\* roots
Roots(data) ==
  LET top == SelectSeq(data.nodes, LAMBDA n : n.id \notin HasParent(data))
  IN [i \in 1..Len(top) |-> top[i].id]

\* The ids layoutNodes can meet: a walk that goes deeper than their number
\* is on a cycle.
LayoutIds(data) == SeqIds(data.nodes) \cup HasParent(data)

\* The while loop over the queue ends: no queue item lies on a cycle.
RECURSIVE QueueEnds(_, _)
QueueEnds(data, queue) ==
  IF queue = <<>> THEN TRUE
  ELSE IF Head(queue).depth > Cardinality(LayoutIds(data)) THEN FALSE
  ELSE LET kids == ChildrenOf(data, Head(queue).id)
       IN QueueEnds(data, Tail(queue) \o
                          [i \in 1..Len(kids) |-> [id |-> kids[i], depth |-> Head(queue).depth + 1]])

LayoutEnds(data) ==
  QueueEnds(data, [i \in 1..Len(Roots(data)) |-> [id |-> Roots(data)[i], depth |-> 0]])

\* while (queue.length) { ... }: pos after the walk; layerIndex maps a depth
\* to the number of items placed on it.
RECURSIVE WalkQueue(_, _, _, _)
WalkQueue(data, queue, pos, layerIndex) ==
  IF queue = <<>> THEN pos
  ELSE LET id == Head(queue).id
           depth == Head(queue).depth
           idx == MapGet(layerIndex, depth, 0)
           kids == ChildrenOf(data, id)
       IN WalkQueue(data,
                    Tail(queue) \o [i \in 1..Len(kids) |-> [id |-> kids[i], depth |-> depth + 1]],
                    MapSet(pos, id, [x |-> idx * NODE_HORIZONTAL_GAP, y |-> depth * NODE_VERTICAL_GAP]),
                    MapSet(layerIndex, depth, idx + 1))

\* data.nodes.forEach((n, i) => pos[n.id] = {x: (i % 4) * GAP, y: floor(i / 4) * GAP})
RECURSIVE GridFrom(_, _, _)
GridFrom(data, i, pos) ==
  IF i > Len(data.nodes) THEN pos
  ELSE GridFrom(data, i + 1,
                MapSet(pos, data.nodes[i].id,
                       [x |-> ((i - 1) % GridColumns) * NODE_HORIZONTAL_GAP,
                        y |-> ((i - 1) \div GridColumns) * NODE_VERTICAL_GAP]))

\* layoutNodes up to the recentering: the walk from the roots, and the grid
\* when the walk has placed nothing.
PlaceNodes(data) ==
  LET roots == Roots(data)
      pos == WalkQueue(data, [i \in 1..Len(roots) |-> [id |-> roots[i], depth |-> 0]],
                       EmptyMap, EmptyMap)
  IN IF DOMAIN pos = {} THEN GridFrom(data, 1, EmptyMap) ELSE pos

\* The recentering of layoutNodes.  The coordinates are multiples of the two
\* gaps, which are even, so (min + max) / 2 is an integer.
Recenter(pos) ==
  IF DOMAIN pos = {} THEN pos
  ELSE LET xs == {pos[id].x : id \in DOMAIN pos}
           ys == {pos[id].y : id \in DOMAIN pos}
           minX == CHOOSE v \in xs : \A w \in xs : v <= w
           maxX == CHOOSE v \in xs : \A w \in xs : v >= w
           minY == CHOOSE v \in ys : \A w \in ys : v <= w
           maxY == CHOOSE v \in ys : \A w \in ys : v >= w
           offsetX == (minX + maxX) \div 2
           offsetY == (minY + maxY) \div 2
       IN [id \in DOMAIN pos |-> [x |-> pos[id].x - offsetX, y |-> pos[id].y - offsetY]]

layoutNodes(data) == Recenter(PlaceNodes(data))

\* The clamp without its branch for an empty range.
clampNoMidpoint(value, min, max) == Min2(Max2(value, min), max)

\* clamp(value, min, max).  The model applies it to even integers, for which
\* (min + max) / 2 is an integer.
clamp(value, min, max) ==
  IF min > max THEN (min + max) \div 2 ELSE Min2(Max2(value, min), max)

\* No function has been called.
NoCall == [fn |-> "none"]

\* ----------------------------------------------------- ChatGraph component
\* The refs and the state of ChatGraphInner.  fitRaf and followRaf are
\* the animation frames the two viewport effects have requested; viewport is
\* what the last setViewport was computed from.
ViewInit ==
  [data |-> EmptyGraph, nodes |-> <<>>, prevNodeIds |-> {}, initialViewDone |-> FALSE,
   lastAddedId |-> Null, fitRaf |-> FALSE, followRaf |-> FALSE,
   viewport |-> [by |-> "none", ids |-> {}]]

\* The graphs the page hands to ChatGraph: what the service returns for a
\* tree as replies are stored, and the empty graph.
MaxReplies == 5

RECURSIVE ViewServer(_)
ViewServer(n) ==
  IF n = 0 THEN ServerInit
  ELSE LET srv == ViewServer(n - 1)
           tree == Trees[((n - 1) % Len(Trees)) + 1]
           mine == SelectSeq(srv, LAMBDA nd : nd.tree = tree)
       IN ServerStore(srv, SrvId(Len(srv) + 1), tree, mine[Len(mine)].id, "assistant", EndContent)

ViewGraphs ==
  {EmptyGraph} \cup {ServerGraph(ViewServer(n), t) : n \in 0..MaxReplies, t \in TreeIds}

\* addedId: the last node of the list that prevIds does not hold
AddedId(prevIds, nodes) ==
  IF \E i \in 1..Len(nodes) : nodes[i] \notin prevIds
  THEN nodes[CHOOSE i \in 1..Len(nodes) :
               /\ nodes[i] \notin prevIds
               /\ \A j \in (i + 1)..Len(nodes) : nodes[j] \in prevIds]
  ELSE Null

\* useEffect [data, activeNodeId]: setNodes, the diff against prevNodeIds;
\* then the render with the new nodes and the two viewport effects, each
\* cancelling its frame and requesting a new one under its guards.
ShowData(v, data) ==
  LET prevIds == v.prevNodeIds
      nextNodes == [i \in 1..Len(data.nodes) |-> data.nodes[i].id]
      nextIds == {nextNodes[i] : i \in 1..Len(nextNodes)}
      isInitial == prevIds = {}
      addedId == AddedId(prevIds, nextNodes)
      done == IF isInitial /\ Len(nextNodes) > 0 THEN FALSE ELSE v.initialViewDone
      last == IF isInitial /\ Len(nextNodes) > 0 THEN Null
              ELSE IF ~isInitial /\ addedId # Null THEN addedId
              ELSE v.lastAddedId
  IN [v EXCEPT !.data = data, !.nodes = nextNodes, !.prevNodeIds = nextIds,
               !.initialViewDone = done, !.lastAddedId = last,
               !.fitRaf = (~done /\ Len(nextNodes) > 0),
               !.followRaf = (last # Null)]

\* The page renders ChatGraph with a graph object it has not handed over
\* before, or with another activeNodeId: the effect runs on the identity of
\* data, so data may be equal to the graph that is shown.
showData(data) ==
  /\ view' = ShowData(view, data)
  /\ UNCHANGED <<homeVars, paneVars, sends, envVars, steps, reader, call>>

\* The animation frame of the initial-fit effect; sized is whether the
\* wrapper has a width and a height.
fitFrame(sized) ==
  /\ view.fitRaf
  /\ view' = IF view.initialViewDone \/ Len(view.nodes) = 0 \/ ~sized
             THEN [view EXCEPT !.fitRaf = FALSE]
             ELSE [view EXCEPT !.fitRaf = FALSE, !.initialViewDone = TRUE,
                               !.viewport = [by |-> "fit",
                                             ids |-> {view.nodes[i] : i \in 1..Len(view.nodes)}]]
  /\ UNCHANGED <<homeVars, paneVars, sends, envVars, steps, reader, call>>

\* parentById.get(id) ?? null
parentById(data, id) ==
  IF \E i \in 1..Len(data.nodes) : data.nodes[i].id = id
  THEN data.nodes[CHOOSE i \in 1..Len(data.nodes) :
                    /\ data.nodes[i].id = id
                    /\ \A j \in (i + 1)..Len(data.nodes) : data.nodes[j].id # id].parent_id
  ELSE Null

\* focusIds: the node and its ancestors, n of them at most
RECURSIVE focusIds(_, _, _)
focusIds(data, current, n) ==
  IF n = 0 \/ current = Null THEN {}
  ELSE {current} \cup focusIds(data, parentById(data, current), n - 1)

\* The animation frame of the follow-new-node effect; fullyVisible is
\* whether the viewport already shows the whole node.  The viewport is
\* computed from focusNodes, the focusIds that reactFlow has a node for.
followFrame(fullyVisible) ==
  /\ view.followRaf
  /\ LET nodeId == view.lastAddedId
         shown == {view.nodes[i] : i \in 1..Len(view.nodes)}
         known == nodeId \in shown
         focusNodes == focusIds(view.data, nodeId, 3) \cap shown
     IN view' = IF ~known \/ fullyVisible
                THEN [view EXCEPT !.followRaf = FALSE, !.lastAddedId = Null]
                ELSE [view EXCEPT !.followRaf = FALSE, !.lastAddedId = Null,
                                  !.viewport = [by |-> "follow", ids |-> focusNodes]]
  /\ UNCHANGED <<homeVars, paneVars, sends, envVars, steps, reader, call>>

\* ---------------------------------------------------------- the read loop
\* The bytes of a response body.  c1 c2 is the two-byte encoding of one
\* character; e stands for a line processLine throws on.
LF == "\n"
Bytes == {"x", "e", " ", LF, "c1", "c2"}
MaxBody == 4

\* U+FFFD, what the decoder gives for a malformed sequence
Replacement == "?"

\* TextDecoder.decode(value, {stream: true}): pend is whether the decoder
\* holds the lead byte c1 of an unfinished character.
RECURSIVE decode(_, _, _)
decode(pend, value, out) ==
  IF value = <<>> THEN [pend |-> pend, text |-> out]
  ELSE LET b == Head(value)
       IN IF pend
          THEN IF b = "c2" THEN decode(FALSE, Tail(value), Append(out, "c"))
               ELSE decode(FALSE, value, Append(out, Replacement))
          ELSE IF b = "c1" THEN decode(TRUE, Tail(value), out)
          ELSE IF b = "c2" THEN decode(FALSE, Tail(value), Append(out, Replacement))
          ELSE decode(FALSE, Tail(value), Append(out, b))

\* decoder.decode(new Uint8Array(), {stream: false})
Flush(pend) == IF pend THEN <<Replacement>> ELSE <<>>

\* buffer.indexOf('\n'), 0 when there is none
newlineIndex(buffer) ==
  IF \E i \in 1..Len(buffer) : buffer[i] = LF
  THEN CHOOSE i \in 1..Len(buffer) : buffer[i] = LF /\ \A j \in 1..(i - 1) : buffer[j] # LF
  ELSE 0

\* processLine throws on a line that is not a frame
Throws(line) == \E i \in 1..Len(line) : line[i] = "e"

\* processLine(raw): a blank line is skipped; r.failed is set when it throws.
processLine(r, raw) ==
  IF raw = <<>> THEN r
  ELSE [r EXCEPT !.frames = Append(r.frames, raw), !.failed = Throws(raw)]

\* while (newlineIndex >= 0) { processLine(buffer.slice(0, newlineIndex).trim()); ... }
RECURSIVE TakeLines(_)
TakeLines(r) ==
  LET at == newlineIndex(r.buffer)
  IN IF at = 0 \/ r.failed THEN r
     ELSE TakeLines(processLine([r EXCEPT !.buffer = SubSeq(r.buffer, at + 1, Len(r.buffer))],
                                Trim(SubSeq(r.buffer, 1, at - 1))))

\* A read loop that treats the end of every read as the end of a line.
ConsumeByRead(r, value) ==
  LET d == decode(r.pend, value, <<>>)
      r1 == TakeLines([r EXCEPT !.pend = d.pend, !.buffer = r.buffer \o d.text,
                                !.rest = SubSeq(r.rest, Len(value) + 1, Len(r.rest)),
                                !.reads = Append(r.reads, Len(value))])
  IN IF r1.failed THEN r1
     ELSE processLine([r1 EXCEPT !.buffer = <<>>], Trim(r1.buffer))

\* One turn of the read loop with a chunk: buffer += decode(value), then
\* every complete line of the buffer.
Consume(r, value) ==
  LET d == decode(r.pend, value, <<>>)
  IN TakeLines([r EXCEPT !.pend = d.pend, !.buffer = r.buffer \o d.text,
                         !.rest = SubSeq(r.rest, Len(value) + 1, Len(r.rest)),
                         !.reads = Append(r.reads, Len(value))])

\* After the loop: the decoder is flushed and a non-empty remainder is
\* processed.
Finish(r) ==
  LET remainder == Trim(r.buffer \o Flush(r.pend))
  IN [processLine([r EXCEPT !.buffer = <<>>, !.pend = FALSE], remainder) EXCEPT !.done = TRUE]

Reader(body) ==
  [body |-> body, rest |-> body, reads |-> <<>>, pend |-> FALSE, buffer |-> <<>>,
   frames |-> <<>>, failed |-> FALSE, done |-> FALSE]
ReaderIdle == Reader(<<>>)

\* reader.read() resolves with the next n bytes of the body.
readChunk(n) ==
  /\ ~reader.done /\ ~reader.failed
  /\ n \in 1..Len(reader.rest)
  /\ reader' = Consume(reader, SubSeq(reader.rest, 1, n))
  /\ UNCHANGED <<homeVars, paneVars, sends, envVars, steps, view, call>>

\* reader.read() resolves done.
readDone ==
  /\ ~reader.done /\ ~reader.failed
  /\ reader.rest = <<>>
  /\ reader' = Finish(reader)
  /\ UNCHANGED <<homeVars, paneVars, sends, envVars, steps, view, call>>

\* ------------------------------------------------------- render and effects
\* ChatPane's effects for a render whose key is given: useEffect
\* [currentKey] and useEffect [currentKey, effectiveNodeId, loadPath].
PaneEffects(prevKey, key, eff, p, preqs) ==
  LET keyChanged == key # prevKey
      \* useEffect [currentKey]: activeKeyRef, setPathSnapshot(cached)
      p1 == IF keyChanged
            THEN [p EXCEPT !.akr = key, !.snap = MapGet(p.store, key, <<>>)]
            ELSE p
      \* useEffect [currentKey, effectiveNodeId]: loadPath(currentKey, effectiveNodeId)
      p2 == IF ~keyChanged THEN p1
            ELSE IF eff = Null
              THEN [p1 EXCEPT !.store = MapSet(p1.store, key, <<>>),
                              !.snap = <<>>,
                              !.sending = p1.sending \ {key}]
            ELSE IF key \in DOMAIN p1.store
              THEN [p1 EXCEPT !.snap = p1.store[key]]
            ELSE p1
  IN [p |-> p2,
      preqs |-> IF keyChanged /\ eff # Null /\ key \notin DOMAIN p1.store
                THEN ReqAdd(preqs, [key |-> key, nodeId |-> eff])
                ELSE preqs]

\* The render that ends a turn, and the effects it runs.  The handler leaves
\* the Home state (blank, tree, node, g), lastSelectedNodeRef (last),
\* pendingFocusNodeIdRef (focus), the ChatPane refs p, the requests in flight
\* and whether it called setSendingVersion / setStreamVersion.
CommitTurn(cost, last, focus, blank, tree, node, g, p, txt, preqs, greqs, bumpSending, bumpStream) ==
  LET key1 == currentKeyOf(tree, node, g)
      r1 == PaneEffects(currentKey, key1, effectiveNodeId(node, g), p, preqs)
      \* useEffect [activeTreeId, refreshGraph]; refreshGraph is made anew
      \* when blankTreeId changes
      runs == tree # activeTreeId \/ blank # blankTreeId
      \* without a tree the effect empties the graph and the selection, and
      \* the page renders again
      reset == runs /\ tree = NoTree
      node2 == IF reset THEN Null ELSE node
      g2 == IF reset THEN EmptyGraph ELSE g
      key2 == currentKeyOf(tree, node2, g2)
      r2 == PaneEffects(key1, key2, effectiveNodeId(node2, g2), r1.p, r1.preqs)
      remembered == MapGet(last, tree, Null)
      greqs2 == IF runs /\ tree # NoTree
                THEN ReqAdd(greqs, [tree |-> tree,
                                    focusNodeId |-> IF focus # Null THEN focus ELSE remembered,
                                    selectRoot |-> (focus = Null /\ remembered = Null),
                                    blank |-> blank])
                ELSE greqs
      \* useEffect [activeTreeId, activeNodeId]: lastSelectedNodeRef
      last2 == IF tree # NoTree /\ node # Null /\ (tree # activeTreeId \/ node # activeNodeId)
               THEN MapSet(last, tree, node)
               ELSE last
      keyChanged == key1 # currentKey \/ key2 # key1
  IN \* the page is observed for MaxSteps turns, a read of n lines counted
     \* as n of them
     /\ steps + cost <= MaxSteps
     /\ activeTreeId' = tree
     /\ activeNodeId' = node2
     /\ graph' = g2
     /\ blankTreeId' = blank
     /\ lastSelectedNode' = last2
     /\ graphReqs' = greqs2
     /\ input' = txt
     /\ pathStore' = r2.p.store
     /\ pathSnapshot' = r2.p.snap
     /\ activeKeyRef' = r2.p.akr
     /\ sendingKeys' = r2.p.sending
     /\ streamSessions' = r2.p.sess
     /\ pathReqs' = r2.preqs
     /\ isSending' = IF bumpSending \/ keyChanged THEN key2 \in r2.p.sending ELSE isSending
     /\ activeStream' = IF bumpStream \/ keyChanged THEN MapGet(r2.p.sess, key2, 0) ELSE activeStream
     /\ steps' = steps + cost
     /\ UNCHANGED partVars

\* The render that ends a turn of a handler, or of a read of one line.
CommitWith(last, focus, blank, tree, node, g, p, txt, preqs, greqs, bumpSending, bumpStream) ==
  CommitTurn(1, last, focus, blank, tree, node, g, p, txt, preqs, greqs, bumpSending, bumpStream)

\* The render after a handler that leaves lastSelectedNodeRef,
\* pendingFocusNodeIdRef and blankTreeId as they are.
Commit(tree, node, g, p, txt, preqs, greqs, bumpSending, bumpStream) ==
  CommitWith(lastSelectedNode, Null, blankTreeId, tree, node, g, p, txt, preqs, greqs,
             bumpSending, bumpStream)

\* The render after a handler that changes nothing of the page or the pane.
CommitSame ==
  Commit(activeTreeId, activeNodeId, graph, PaneNow, input, pathReqs, graphReqs, FALSE, FALSE)

\* ------------------------------------------------------------------- Init
IdleSend ==
  [st |-> "idle", tree |-> NoTree, parent |-> Null, trimmed |-> <<>>,
   userPendingId |-> Null, assistantPendingId |-> Null,
   baseKey |-> computeKey(NoTree, Null), basePath |-> <<>>, streamKey |-> computeKey(NoTree, Null),
   serverUserId |-> Null, finalAssistantId |-> Null, finalContent |-> <<>>,
   frames |-> 0, tokens |-> <<>>, stored |-> Null, blank |-> NoTree,
   content |-> <<>>, assistantId |-> Null, userId |-> Null, active |-> FALSE]

PageInit ==
  /\ activeTreeId = NoTree
  /\ activeNodeId = Null
  /\ graph = EmptyGraph
  /\ lastSelectedNode = EmptyMap
  /\ graphReqs = NoReqs
  /\ blankTreeId = NoTree
  \* the mount effect has called ensureInitialTree: GET /trees is in flight
  \* (treesLoaded: the request has been answered or refused)
  /\ treesLoaded = FALSE
  /\ isLoadingTrees = TRUE
  /\ trees = <<>>
  /\ pendingTreeId = NoTree
  /\ editingTreeId = NoTree
  /\ listReqs = NoReqs
  /\ srvTrees = Trees
  /\ nextTree = 1
  /\ input = <<>>
  \* first render: loadPath(currentKey, null) stores the empty path
  /\ pathStore = MapSet(EmptyMap, computeKey(NoTree, Null), <<>>)
  /\ pathSnapshot = <<>>
  /\ activeKeyRef = computeKey(NoTree, Null)
  /\ sendingKeys = {}
  /\ isSending = FALSE
  /\ streamSessions = [x \in {} |-> 0]
  /\ activeStream = 0
  /\ pathReqs = NoReqs
  /\ sends = [s \in 1..MaxSends |-> IdleSend]
  /\ now = 0
  /\ server = ServerInit
  /\ nextSrv = FirstFreshSrv
  /\ gestures = 0
  /\ steps = 0

Init ==
  /\ PageInit
  /\ unreadMap = EmptyUnread
  /\ view = ViewInit
  /\ reader = ReaderIdle
  /\ call = NoCall

\* The user navigates at most MaxGestures times, and clicks at most
\* MaxListGestures times with the buttons of the list counted.
Gesture ==
  /\ gestures < MaxGestures
  /\ gestures' = gestures + 1
ListGesture ==
  /\ gestures < MaxListGestures
  /\ gestures' = gestures + 1

\* ------------------------------------------------------------ Home actions
\* isEmptyConversation = Boolean(activeTreeId) && !hasMessages
isEmptyConversation == activeTreeId # NoTree /\ Len(graph.nodes) = 0

\* activeNode = graph.nodes.find((n) => n.id === activeNodeId) ?? null
HasActiveNode == GraphHas(graph, activeNodeId)
activeNode ==
  graph.nodes[CHOOSE i \in 1..Len(graph.nodes) :
                /\ graph.nodes[i].id = activeNodeId
                /\ \A j \in 1..(i - 1) : graph.nodes[j].id # activeNodeId]

\* the conversation has a row in the list
Listed(t) == \E i \in 1..Len(trees) : trees[i] = t

\* A request of one of the handlers of the list, with what its closure holds.
ListReq ==
  [op |-> "none", tree |-> NoTree, to |-> NoTree, node |-> Null, parent |-> Null,
   wasActive |-> FALSE, wasEditing |-> FALSE, blank |-> NoTree, editing |-> NoTree,
   trimmed |-> <<>>, snap |-> <<>>]

\* The trees the service can still make, the requests in flight counted.
RECURSIVE MakesInFlight(_, _)
MakesInFlight(reqs, rs) ==
  IF rs = {} THEN 0
  ELSE LET r == CHOOSE x \in rs : TRUE
       IN (IF r.op \in {"create", "fork"} THEN reqs[r] ELSE 0) + MakesInFlight(reqs, rs \ {r})
CanMake == nextTree + MakesInFlight(listReqs, DOMAIN listReqs) <= Len(NewTrees)

\* ensureInitialTree, from the response of GET /trees on.
ensureInitialTree ==
  /\ ~treesLoaded
  /\ treesLoaded' = TRUE
  /\ trees' = srvTrees
  /\ isLoadingTrees' = FALSE
  /\ Commit(IF activeTreeId # NoTree /\ activeTreeId \in SeqSet(srvTrees) THEN activeTreeId
            ELSE IF Len(srvTrees) > 0 THEN srvTrees[1] ELSE NoTree,
            activeNodeId, graph, PaneNow, input, pathReqs, graphReqs, FALSE, FALSE)
  /\ UNCHANGED <<unreadMap, pendingTreeId, editingTreeId, listReqs, srvTrees, nextTree,
                 sends, envVars>>

\* fetchJSON throws for a GET /trees the service refuses: the finally of
\* ensureInitialTree.  The list and the active tree stay as they are, and
\* nothing asks for the list again.
ensureInitialTreeFailed ==
  /\ ~treesLoaded
  /\ treesLoaded' = TRUE
  /\ isLoadingTrees' = FALSE
  /\ CommitSame
  /\ UNCHANGED <<unreadMap, trees, pendingTreeId, editingTreeId, listReqs, srvTrees, nextTree,
                 sends, envVars>>

\* handleSelectTree(treeId), up to its await if it has one: a click on a
\* conversation of the list.  The row takes no click while it is edited or
\* pending.
handleSelectTree(t) ==
  /\ Gesture
  /\ Listed(t)
  /\ editingTreeId # t /\ pendingTreeId # t
  /\ t # activeTreeId
  /\ IF blankTreeId # NoTree /\ blankTreeId = activeTreeId /\ isEmptyConversation
     THEN \* await DELETE /trees/{blankTreeId}
          /\ listReqs' = ReqAdd(listReqs, [ListReq EXCEPT !.op = "discard", !.tree = blankTreeId,
                                                          !.to = t, !.editing = editingTreeId])
          /\ CommitSame
          /\ UNCHANGED editingTreeId
     ELSE /\ editingTreeId' = IF editingTreeId # NoTree /\ editingTreeId # t
                              THEN NoTree ELSE editingTreeId
          /\ Commit(t, Null, graph, PaneNow, input, pathReqs, graphReqs, FALSE, FALSE)
          /\ UNCHANGED listReqs
  /\ UNCHANGED <<unreadMap, sends, treesLoaded, trees, pendingTreeId, isLoadingTrees,
                 srvTrees, nextTree, now, server, nextSrv>>

\* handleSelectTree, from the response of DELETE /trees/{blankTreeId} on;
\* a rejection is caught and the handler goes on.
discardDone(req) ==
  /\ req \in DOMAIN listReqs /\ req.op = "discard"
  /\ listReqs' = ReqDel(listReqs, req)
  /\ trees' = SelectSeq(trees, LAMBDA x : x # req.tree)
  /\ srvTrees' = SelectSeq(srvTrees, LAMBDA x : x # req.tree)
  /\ server' = ServerDelete(server, req.tree)
  /\ editingTreeId' = IF req.editing # NoTree /\ req.editing # req.to
                      THEN NoTree ELSE editingTreeId
  /\ CommitWith(lastSelectedNode, Null, NoTree, req.to, Null, EmptyGraph, PaneNow, input,
                pathReqs, graphReqs, FALSE, FALSE)
  /\ UNCHANGED <<unreadMap, sends, treesLoaded, pendingTreeId, isLoadingTrees, nextTree,
                 now, nextSrv, gestures>>

\* handleCreateTree, up to the await of POST /trees: one of the New buttons.
handleCreateTree ==
  /\ ListGesture
  /\ ~isLoadingTrees /\ blankTreeId = NoTree
  /\ ~isEmptyConversation
  /\ CanMake
  /\ isLoadingTrees' = TRUE
  /\ listReqs' = ReqAdd(listReqs, [ListReq EXCEPT !.op = "create"])
  /\ CommitSame
  /\ UNCHANGED <<unreadMap, sends, treesLoaded, trees, pendingTreeId, editingTreeId,
                 srvTrees, nextTree, now, server, nextSrv>>

\* handleCreateTree, from the response of POST /trees on.
createDone(req) ==
  /\ req \in DOMAIN listReqs /\ req.op = "create"
  /\ nextTree <= Len(NewTrees)
  /\ LET newTree == NewTrees[nextTree]
     IN /\ listReqs' = ReqDel(listReqs, req)
        /\ srvTrees' = Append(srvTrees, newTree)
        /\ nextTree' = nextTree + 1
        /\ trees' = <<newTree>> \o trees
        /\ isLoadingTrees' = FALSE
        /\ CommitWith(lastSelectedNode, Null, newTree, newTree, Null, graph, PaneNow, input,
                      pathReqs, graphReqs, FALSE, FALSE)
  /\ UNCHANGED <<unreadMap, sends, treesLoaded, pendingTreeId, editingTreeId,
                 now, server, nextSrv, gestures>>

\* fetchJSON throws for a POST /trees the service refuses: the finally of
\* handleCreateTree.
createFailed(req) ==
  /\ req \in DOMAIN listReqs /\ req.op = "create"
  /\ listReqs' = ReqDel(listReqs, req)
  /\ isLoadingTrees' = FALSE
  /\ CommitSame
  /\ UNCHANGED <<unreadMap, sends, treesLoaded, trees, pendingTreeId, editingTreeId,
                 srvTrees, nextTree, envVars>>

\* handleForkActive, up to the await of POST /messages/branch/{id}/fork.
handleForkActive ==
  /\ ListGesture
  /\ activeNodeId # Null
  /\ HasActiveNode
  /\ CanMake
  /\ listReqs' = ReqAdd(listReqs, [ListReq EXCEPT !.op = "fork", !.node = activeNodeId])
  /\ CommitSame
  /\ UNCHANGED <<unreadMap, sends, treesLoaded, trees, pendingTreeId, editingTreeId,
                 isLoadingTrees, srvTrees, nextTree, now, server, nextSrv>>

\* handleForkActive, from the response of the fork on.
forkDone(req) ==
  /\ req \in DOMAIN listReqs /\ req.op = "fork"
  /\ ServerKnows(server, req.node)
  /\ nextTree <= Len(NewTrees)
  /\ LET newTree == NewTrees[nextTree]
         copies == Len(ServerChain(server, req.node))
         active_node_id == SrvId(nextSrv + copies - 1)
     IN /\ listReqs' = ReqDel(listReqs, req)
        /\ srvTrees' = Append(srvTrees, newTree)
        /\ nextTree' = nextTree + 1
        /\ server' = ServerFork(server, req.node, newTree, nextSrv)
        /\ nextSrv' = nextSrv + copies
        /\ trees' = <<newTree>> \o SelectSeq(trees, LAMBDA x : x # newTree)
        /\ CommitWith(lastSelectedNode, active_node_id,
                      IF blankTreeId = newTree THEN NoTree ELSE blankTreeId,
                      newTree, active_node_id, graph, PaneNow, input,
                      pathReqs, graphReqs, FALSE, FALSE)
  /\ UNCHANGED <<unreadMap, sends, treesLoaded, pendingTreeId, editingTreeId, isLoadingTrees,
                 now, gestures>>

\* fetchJSON throws for a node the service does not know; the catch logs.
forkFailed(req) ==
  /\ req \in DOMAIN listReqs /\ req.op = "fork"
  /\ ~ServerKnows(server, req.node)
  /\ listReqs' = ReqDel(listReqs, req)
  /\ CommitSame
  /\ UNCHANGED <<unreadMap, sends, treesLoaded, trees, pendingTreeId, editingTreeId,
                 isLoadingTrees, srvTrees, nextTree, envVars>>

\* handleStartRename(tree): the pencil of a row.
handleStartRename(t) ==
  /\ ListGesture
  /\ Listed(t)
  /\ editingTreeId # t
  /\ pendingTreeId = NoTree /\ ~isLoadingTrees
  /\ editingTreeId' = t
  /\ CommitSame
  /\ UNCHANGED <<unreadMap, sends, treesLoaded, trees, pendingTreeId, isLoadingTrees,
                 listReqs, srvTrees, nextTree, now, server, nextSrv>>

\* the form of the row that is edited takes input
CanEdit == editingTreeId # NoTree /\ Listed(editingTreeId) /\ pendingTreeId # editingTreeId

\* handleCancelRename: Cancel, or Escape in the title.
handleCancelRename ==
  /\ ListGesture
  /\ CanEdit
  /\ editingTreeId' = NoTree
  /\ CommitSame
  /\ UNCHANGED <<unreadMap, sends, treesLoaded, trees, pendingTreeId, isLoadingTrees,
                 listReqs, srvTrees, nextTree, now, server, nextSrv>>

\* handleRenameSubmit, up to the await of PATCH /trees/{id}; same is
\* whether the title typed is the title the conversation has.
handleRenameSubmit(same) ==
  /\ ListGesture
  /\ CanEdit
  /\ IF same
     THEN /\ editingTreeId' = NoTree
          /\ UNCHANGED <<pendingTreeId, listReqs>>
     ELSE /\ pendingTreeId' = editingTreeId
          /\ listReqs' = ReqAdd(listReqs, [ListReq EXCEPT !.op = "rename", !.tree = editingTreeId])
          /\ UNCHANGED editingTreeId
  /\ CommitSame
  /\ UNCHANGED <<unreadMap, sends, treesLoaded, trees, isLoadingTrees, srvTrees, nextTree,
                 now, server, nextSrv>>

\* handleRenameSubmit, from the response of the PATCH on.
renameDone(req) ==
  /\ req \in DOMAIN listReqs /\ req.op = "rename"
  /\ req.tree \in SeqSet(srvTrees)
  /\ listReqs' = ReqDel(listReqs, req)
  /\ editingTreeId' = NoTree
  /\ pendingTreeId' = NoTree
  /\ CommitSame
  /\ UNCHANGED <<unreadMap, sends, treesLoaded, trees, isLoadingTrees, srvTrees, nextTree,
                 envVars>>

\* fetchJSON throws for a tree the service does not have: the finally alone.
renameFailed(req) ==
  /\ req \in DOMAIN listReqs /\ req.op = "rename"
  /\ req.tree \notin SeqSet(srvTrees)
  /\ listReqs' = ReqDel(listReqs, req)
  /\ pendingTreeId' = NoTree
  /\ CommitSame
  /\ UNCHANGED <<unreadMap, sends, treesLoaded, trees, editingTreeId, isLoadingTrees,
                 srvTrees, nextTree, envVars>>

\* onSelectNode = setActiveNodeId: a click on a node of the graph.
onSelectNode(id) ==
  /\ activeTreeId # NoTree
  /\ Gesture
  /\ GraphHas(graph, id)
  /\ id # activeNodeId
  /\ Commit(activeTreeId, id, graph, PaneNow, input, pathReqs, graphReqs, FALSE, FALSE)
  /\ UNCHANGED <<unreadMap, sends, treeVars, now, server, nextSrv>>

\* handleDeleteTree(treeId), up to the await of DELETE /trees/{treeId}: the
\* bin of a row, which is disabled while a row is pending, or Delete of the
\* pane (handleDeleteActive) while the root is the active node; the user
\* confirms.  wasActive,
\* wasEditing and the test of blankTreeId are computed after the await from
\* the render the callback was made in.
handleDeleteTree(t) ==
  /\ ListGesture
  /\ \/ Listed(t) /\ editingTreeId # t /\ pendingTreeId = NoTree
     \/ t = activeTreeId /\ t # NoTree /\ HasActiveNode /\ activeNode.parent_id = Null
  /\ pendingTreeId' = t
  /\ listReqs' = ReqAdd(listReqs, [ListReq EXCEPT !.op = "delete", !.tree = t,
                                                  !.wasActive = (t = activeTreeId),
                                                  !.wasEditing = (t = editingTreeId),
                                                  !.blank = blankTreeId])
  /\ CommitSame
  /\ UNCHANGED <<unreadMap, sends, treesLoaded, trees, editingTreeId, isLoadingTrees,
                 srvTrees, nextTree, now, server, nextSrv>>

\* setUnreadMap of handleDeleteTree
deleteTreeUnread(m, treeId) == IF treeId \notin DOMAIN m THEN m ELSE MapDel(m, treeId)

\* handleDeleteTree, from the response of DELETE /trees/{treeId} on.
deleteTreeDone(req) ==
  /\ req \in DOMAIN listReqs /\ req.op = "delete"
  /\ req.tree \in SeqSet(srvTrees)
  /\ LET next == SelectSeq(trees, LAMBDA x : x # req.tree)
         nextActive == IF Len(next) > 0 THEN next[1] ELSE NoTree
         tree == IF req.wasActive THEN nextActive ELSE activeTreeId
         node == IF req.wasActive THEN Null ELSE activeNodeId
         g == IF req.wasActive /\ nextActive = NoTree THEN EmptyGraph ELSE graph
     IN /\ trees' = next
        /\ unreadMap' = deleteTreeUnread(unreadMap, req.tree)
        /\ srvTrees' = SelectSeq(srvTrees, LAMBDA x : x # req.tree)
        /\ server' = ServerDelete(server, req.tree)
        /\ listReqs' = ReqDel(listReqs, req)
        /\ editingTreeId' = IF req.wasEditing THEN NoTree ELSE editingTreeId
        /\ pendingTreeId' = NoTree
        /\ CommitWith(MapDel(lastSelectedNode, req.tree), Null,
                      IF req.blank = req.tree THEN NoTree ELSE blankTreeId,
                      tree, node, g, PaneNow, input, pathReqs, graphReqs, FALSE, FALSE)
  /\ UNCHANGED <<treesLoaded, isLoadingTrees, nextTree, sends, now, nextSrv, gestures>>

\* fetchJSON throws for a tree the service does not have: the finally alone.
deleteTreeFailed(req) ==
  /\ req \in DOMAIN listReqs /\ req.op = "delete"
  /\ req.tree \notin SeqSet(srvTrees)
  /\ listReqs' = ReqDel(listReqs, req)
  /\ pendingTreeId' = NoTree
  /\ CommitSame
  /\ UNCHANGED <<unreadMap, sends, treesLoaded, trees, editingTreeId, isLoadingTrees,
                 srvTrees, nextTree, envVars>>

\* refreshGraph, from the response of GET /messages/graph/{treeId} on: the
\* node setActiveNodeId settles on.  The service stamps created_at as it
\* stores a node, so the latest node is the last one of the response.
refreshGraphNode(prev, data, opts, remembered) ==
  LET root == rootId(data)
      latestNodeId == IF Len(data.nodes) = 0 THEN Null ELSE data.nodes[Len(data.nodes)].id
      defaultNodeId == IF remembered # Null /\ GraphHas(data, remembered) THEN remembered
                       ELSE IF latestNodeId # Null THEN latestNodeId ELSE root
  IN IF opts.focusNodeId # Null /\ GraphHas(data, opts.focusNodeId) THEN opts.focusNodeId
     ELSE IF opts.selectRoot THEN defaultNodeId
     ELSE IF prev = Null THEN defaultNodeId
     ELSE IF GraphHas(data, prev) THEN prev ELSE defaultNodeId

\* setBlankTreeId of refreshGraph; req.blank is the blankTreeId of the render
\* the callback was made in.
refreshGraphBlank(blank, data, req) ==
  IF Len(data.nodes) = 0 THEN req.tree
  ELSE IF req.blank = req.tree THEN NoTree ELSE blank

refreshGraph(req) ==
  /\ req \in DOMAIN graphReqs
  /\ LET data == ServerGraph(server, req.tree)
         node == refreshGraphNode(activeNodeId, data, req, MapGet(lastSelectedNode, req.tree, Null))
     IN /\ CommitWith(lastSelectedNode, Null, refreshGraphBlank(blankTreeId, data, req),
                      activeTreeId, node, data, PaneNow, input, pathReqs,
                      ReqDel(graphReqs, req), FALSE, FALSE)
        /\ unreadMap' = pruneUnreadForTree(unreadMap, req.tree, SeqIds(data.nodes))
  /\ UNCHANGED <<sends, treeVars, envVars>>

\* fetchJSON throws for a tree the service does not have: refreshGraph has
\* no catch, and nothing but the request changes.
refreshGraphFailed(req) ==
  /\ req \in DOMAIN graphReqs
  /\ req.tree \notin SeqSet(srvTrees)
  /\ Commit(activeTreeId, activeNodeId, graph, PaneNow, input, pathReqs,
            ReqDel(graphReqs, req), FALSE, FALSE)
  /\ UNCHANGED <<unreadMap, sends, treeVars, envVars>>

\* -------------------------------------------------------- ChatPane actions
\* onChange of the composer
setInput(txt) ==
  /\ txt # input
  /\ Commit(activeTreeId, activeNodeId, graph, PaneNow, txt, pathReqs, graphReqs, FALSE, FALSE)
  /\ UNCHANGED <<unreadMap, sends, treeVars, envVars>>

\* A loadPath that displays whatever it has fetched.
loadPathAndShow(req) ==
  /\ req \in DOMAIN pathReqs
  /\ ServerKnows(server, req.nodeId)
  /\ LET shaped == ShapePath(ServerPath(server, req.nodeId))
         p == [PaneNow EXCEPT !.store = MapSet(pathStore, req.key, shaped),
                              !.snap = shaped,
                              !.sending = sendingKeys \ {req.key}]
     IN Commit(activeTreeId, activeNodeId, graph, p, input, ReqDel(pathReqs, req), graphReqs, TRUE, FALSE)
  /\ UNCHANGED <<unreadMap, sends, treeVars, envVars>>

\* loadPath, from the response of GET /messages/path/{nodeId} on.
loadPath(req) ==
  /\ req \in DOMAIN pathReqs
  /\ ServerKnows(server, req.nodeId)
  /\ LET shaped == ShapePath(ServerPath(server, req.nodeId))
         p == [PaneNow EXCEPT !.store = MapSet(pathStore, req.key, shaped),
                              !.snap = IF req.key = activeKeyRef THEN shaped ELSE pathSnapshot,
                              !.sending = sendingKeys \ {req.key}]
     IN Commit(activeTreeId, activeNodeId, graph, p, input, ReqDel(pathReqs, req), graphReqs, TRUE, FALSE)
  /\ UNCHANGED <<unreadMap, sends, treeVars, envVars>>

\* fetchJSON throws for a node the service does not know: loadPath rejects.
loadPathFailed(req) ==
  /\ req \in DOMAIN pathReqs
  /\ ~(ServerKnows(server, req.nodeId))
  /\ Commit(activeTreeId, activeNodeId, graph, PaneNow, input, ReqDel(pathReqs, req), graphReqs, FALSE, FALSE)
  /\ UNCHANGED <<unreadMap, sends, treeVars, envVars>>

\* handleScroll with the scroll container within 2px of its bottom:
\* handleScrollPositionChange(null)
handleScroll ==
  /\ activeTreeId # NoTree
  /\ activeNodeId # Null
  /\ activeNodeId \in UnreadOf(unreadMap, activeTreeId)
  /\ unreadMap' = markNodeRead(unreadMap, activeTreeId, activeNodeId)
  /\ Commit(activeTreeId, activeNodeId, graph, PaneNow, input, pathReqs, graphReqs, FALSE, FALSE)
  /\ UNCHANGED <<sends, treeVars, envVars>>

\* ------------------------------------------------- Home page callbacks
\* handlePendingUserMessage({id, parentId, content, treeId})
handlePendingUserMessage(g, node, tree, id, parentId, treeId) ==
  LET nodeExists == GraphHas(g, id)
      nextNodes == Append(g.nodes, [id |-> id, parent_id |-> parentId])
      nextEdges == IF parentId # Null
                   THEN IF \E i \in 1..Len(g.edges) : g.edges[i].target = id
                        THEN g.edges
                        ELSE Append(g.edges, [source |-> parentId, target |-> id])
                   ELSE g.edges
  IN [graph |-> IF nodeExists THEN g ELSE [nodes |-> nextNodes, edges |-> nextEdges],
      node |-> IF treeId = tree THEN id ELSE node]

\* handlePendingUserMessageFailed({id, parentId})
handlePendingUserMessageFailed(g, node, id, parentId) ==
  [graph |-> [nodes |-> SelectSeq(g.nodes, LAMBDA n : n.id # id),
              edges |-> SelectSeq(g.edges, LAMBDA e : e.source # id /\ e.target # id)],
   node |-> IF node # id THEN node ELSE parentId]

\* the request refreshGraph(treeId) of a callback made while blankTreeId was blank
RefreshReq(treeId, blank) ==
  [tree |-> treeId, focusNodeId |-> Null, selectRoot |-> FALSE, blank |-> blank]

\* setBlankTreeId of handleAfterSend; blankRef is blankTreeIdRef.current
afterSendBlank(blankRef, treeId) == IF blankRef = treeId THEN NoTree ELSE blankRef

\* A completion handler that leaves the selection where it is.
handleAfterSendKeepsSelection(g, node, treeRef, blankRef, blank, greqs, unread, assistantId, treeId, pendingUserId) ==
  [graph |-> g, node |-> node, unread |-> markNodeUnread(unread, treeId, assistantId),
   blank |-> afterSendBlank(blankRef, treeId),
   greqs |-> IF treeId # treeRef THEN greqs ELSE ReqAdd(greqs, RefreshReq(treeId, blank))]

\* handleAfterSend({assistantId, treeId, pendingUserId}); treeRef is
\* activeTreeIdRef.current, blankRef is blankTreeIdRef.current, and blank is
\* the blankTreeId of the render whose refreshGraph the callback holds.
handleAfterSend(g, node, treeRef, blankRef, blank, greqs, unread, assistantId, treeId, pendingUserId) ==
  IF treeId # treeRef
  THEN [graph |-> g, node |-> node, greqs |-> greqs,
        blank |-> afterSendBlank(blankRef, treeId),
        unread |-> markNodeUnread(unread, treeId, assistantId)]
  ELSE [unread |-> markNodeUnread(unread, treeId, assistantId),
        blank |-> afterSendBlank(blankRef, treeId),
        graph |-> IF GraphHas(g, pendingUserId)
                  THEN [nodes |-> SelectSeq(g.nodes, LAMBDA n : n.id # pendingUserId),
                        edges |-> SelectSeq(g.edges, LAMBDA e :
                                     e.source # pendingUserId /\ e.target # pendingUserId)]
                  ELSE g,
        node |-> assistantId,
        greqs |-> ReqAdd(greqs, RefreshReq(treeId, blank))]

\* handleDeleteActive, up to the await of DELETE /messages/{activeNodeId}:
\* Delete of the pane or of the graph while the active node has a parent.
\* With the root active the handler is handleDeleteTree(activeTreeId).
handleDeleteActive ==
  /\ ListGesture
  /\ activeTreeId # NoTree /\ activeNodeId # Null
  /\ HasActiveNode
  /\ activeNode.parent_id # Null
  /\ listReqs' = ReqAdd(listReqs, [ListReq EXCEPT !.op = "deleteNode", !.tree = activeTreeId,
                                                  !.node = activeNodeId,
                                                  !.parent = activeNode.parent_id,
                                                  !.blank = blankTreeId])
  /\ CommitSame
  /\ UNCHANGED <<unreadMap, sends, treesLoaded, trees, pendingTreeId, editingTreeId,
                 isLoadingTrees, srvTrees, nextTree, now, server, nextSrv>>

\* handleDeleteActive, from the response of the DELETE on:
\* setActiveNodeId(activeNode.parent_id) and refreshGraph(activeTreeId), both
\* of the render the callback was made in.
deleteNodeDone(req) ==
  /\ req \in DOMAIN listReqs /\ req.op = "deleteNode"
  /\ ServerKnows(server, req.node)
  /\ listReqs' = ReqDel(listReqs, req)
  /\ server' = ServerDeleteNode(server, req.node)
  /\ Commit(activeTreeId, req.parent, graph, PaneNow, input, pathReqs,
            ReqAdd(graphReqs, RefreshReq(req.tree, req.blank)), FALSE, FALSE)
  /\ UNCHANGED <<unreadMap, sends, treesLoaded, trees, pendingTreeId, editingTreeId,
                 isLoadingTrees, srvTrees, nextTree, now, nextSrv, gestures>>

\* fetchJSON throws for a node the service does not know, and nothing
\* catches it.
deleteNodeFailed(req) ==
  /\ req \in DOMAIN listReqs /\ req.op = "deleteNode"
  /\ ~ServerKnows(server, req.node)
  /\ listReqs' = ReqDel(listReqs, req)
  /\ CommitSame
  /\ UNCHANGED <<unreadMap, sends, treesLoaded, trees, pendingTreeId, editingTreeId,
                 isLoadingTrees, srvTrees, nextTree, envVars>>

\* ------------------------------------------------------------------ send
\* initialPath of send()
InitialPath(basePath, trimmed, userPendingId, assistantPendingId) ==
  basePath \o
  << [role |-> "user", content |-> trimmed, pending |-> TRUE, id |-> userPendingId],
     [role |-> "assistant", content |-> <<>>, pending |-> TRUE, id |-> assistantPendingId] >>

\* A guard that does not trim the text.
SendGuardNoTrim(sendingNow, txt) == ~sendingNow /\ Len(txt) # 0

\* A send() that takes its base from the cache alone.
BasePathCacheOnly(store, snap, baseKey, curKey) == MapGet(store, baseKey, <<>>)

\* basePath of send()
BasePath(store, snap, baseKey, curKey) ==
  IF baseKey \in DOMAIN store THEN store[baseKey]
  ELSE IF baseKey = curKey THEN snap ELSE <<>>

\* ensureActiveTree, when it has a tree to return without asking the service
ensureActiveTree == IF activeTreeId # NoTree THEN activeTreeId ELSE blankTreeId

\* The guard the composer puts in front of send(): the Send button is
\* disabled, and handleKeyDown / send return, while isSending.
SendGuard(sendingNow, txt) == ~sendingNow /\ Len(Trim(txt)) # 0

\* Date.now().toString(36)
Stamp(t) == t

NextSend(s) == sends[s].st = "idle" /\ \A j \in 1..(s - 1) : sends[j].st # "idle"

\* send() from the resolution of the target tree on, up to the await of
\* fetch().  What send() reads is of the render its closure was made in:
\* tree is treeId and home's activeTreeId, node is activeNodeId, curKey and
\* snap are currentKey and pathSnapshot, blank is the blankTreeId of
\* refreshGraph in onAfterSend.  g and sel are the graph and the selection
\* the updaters of the page are applied to, and newBlank, active and last
\* are what the page holds when the step ends.
SendFrom(s, trimmed, targetTreeId, tree, node, curKey, snap, blank, g, sel, newBlank, active, last) ==
  /\ NextSend(s)
  /\ \E t \in {now, now + 1} :
       /\ t <= MaxClock
       /\ s = 1 => t = now
       /\ now' = t
       /\ LET parent == node
              baseNodeId == node
              userPendingId == PendingUserId(Stamp(t))
              assistantPendingId == PendingAssistantId(Stamp(t))
              baseKey == computeKey(targetTreeId, baseNodeId)
              basePath == BasePath(pathStore, snap, baseKey, curKey)
              initialPath == InitialPath(basePath, trimmed, userPendingId, assistantPendingId)
              pendingKey == computeKey(targetTreeId, userPendingId)
              p == [PaneNow EXCEPT !.store = MapSet(pathStore, pendingKey, initialPath),
                                   !.sending = sendingKeys \cup {pendingKey},
                                   !.sess = MapSet(streamSessions, pendingKey, s)]
              home == handlePendingUserMessage(g, sel, tree, userPendingId, parent,
                                               targetTreeId)
          IN /\ CommitWith(last, Null, newBlank, active, home.node, home.graph, p, <<>>,
                           pathReqs, graphReqs, TRUE, TRUE)
             /\ sends' = [sends EXCEPT ![s] =
                  [IdleSend EXCEPT !.st = "open", !.tree = targetTreeId, !.parent = parent,
                                   !.trimmed = trimmed, !.userPendingId = userPendingId,
                                   !.assistantPendingId = assistantPendingId,
                                   !.baseKey = baseKey, !.basePath = basePath,
                                   !.streamKey = pendingKey, !.blank = blank,
                                   !.active = TRUE]]

\* The Send button, or Enter, with the text the composer holds and a tree
\* that ensureActiveTree returns without asking the service.
send(s) ==
  /\ SendGuard(isSending, input)
  /\ ensureActiveTree # NoTree
  /\ SendFrom(s, Trim(input), ensureActiveTree, activeTreeId,
              effectiveNodeId(activeNodeId, graph), currentKey, pathSnapshot, blankTreeId,
              graph, activeNodeId, blankTreeId, activeTreeId, lastSelectedNode)
  /\ UNCHANGED <<unreadMap, treeVars, server, nextSrv, gestures>>

\* Enter with nothing to send in the composer, or while a send of the
\* branch is in flight: handleKeyDown and send() return at their guards.
sendRejected ==
  /\ ~SendGuard(isSending, input)
  /\ CommitSame
  /\ UNCHANGED <<unreadMap, sends, treeVars, envVars>>

\* send() while no tree is active and none is blank, up to the await of
\* POST /trees in onEnsureTree = ensureActiveTree.
sendEnsureTree ==
  /\ SendGuard(isSending, input)
  /\ ensureActiveTree = NoTree
  /\ isLoadingTrees' = TRUE
  /\ listReqs' = ReqAdd(listReqs, [ListReq EXCEPT !.op = "ensure", !.trimmed = Trim(input),
                                                  !.node = effectiveNodeId(activeNodeId, graph),
                                                  !.snap = pathSnapshot])
  /\ CommitSame
  /\ UNCHANGED <<unreadMap, sends, treesLoaded, trees, pendingTreeId, editingTreeId,
                 srvTrees, nextTree, envVars>>

\* ensureActiveTree from the response of POST /trees on, and send() from
\* the tree it returns on: the continuation of send() runs before the page
\* renders with the new tree, with what its closure held at the click.
ensureActiveTreeDone(req, s) ==
  /\ req \in DOMAIN listReqs /\ req.op = "ensure"
  /\ nextTree <= Len(NewTrees)
  /\ LET newTree == NewTrees[nextTree]
     IN /\ listReqs' = ReqDel(listReqs, req)
        /\ srvTrees' = Append(srvTrees, newTree)
        /\ nextTree' = nextTree + 1
        /\ trees' = <<newTree>> \o trees
        /\ isLoadingTrees' = FALSE
        /\ SendFrom(s, req.trimmed, newTree, NoTree, req.node, computeKey(NoTree, req.node),
                    req.snap, NoTree, EmptyGraph, Null, newTree, newTree, lastSelectedNode)
  /\ UNCHANGED <<unreadMap, treesLoaded, pendingTreeId, editingTreeId, server, nextSrv,
                 gestures>>

\* fetchJSON throws for a POST /trees the service refuses: the finally of
\* ensureActiveTree, and send() is left at its await.
ensureActiveTreeFailed(req) ==
  /\ req \in DOMAIN listReqs /\ req.op = "ensure"
  /\ listReqs' = ReqDel(listReqs, req)
  /\ isLoadingTrees' = FALSE
  /\ CommitSame
  /\ UNCHANGED <<unreadMap, sends, treesLoaded, trees, pendingTreeId, editingTreeId,
                 srvTrees, nextTree, envVars>>

\* A migration that copies the path to the new key and leaves the old key
\* in the cache.
migrateStreamKeyCopy(p, streamKey, nextKey) ==
  IF nextKey = streamKey THEN p
  ELSE LET currentPath == MapGet(p.store, streamKey, <<>>)
       IN [store |-> MapSet(p.store, nextKey, currentPath),
           sending |-> IF streamKey \in p.sending
                       THEN (p.sending \ {streamKey}) \cup {nextKey} ELSE p.sending,
           sess |-> IF streamKey \in DOMAIN p.sess
                    THEN MapSet(MapDel(p.sess, streamKey), nextKey, p.sess[streamKey])
                    ELSE p.sess,
           akr |-> IF p.akr = streamKey THEN nextKey ELSE p.akr,
           snap |-> IF p.akr = streamKey THEN currentPath ELSE p.snap]

\* migrateStreamKey(nextKey) of the send whose streamKey is given
migrateStreamKey(p, streamKey, nextKey) ==
  IF nextKey = streamKey THEN p
  ELSE LET currentPath == MapGet(p.store, streamKey, <<>>)
       IN [store |-> MapDel(MapSet(p.store, nextKey, currentPath), streamKey),
           sending |-> IF streamKey \in p.sending
                       THEN (p.sending \ {streamKey}) \cup {nextKey} ELSE p.sending,
           sess |-> IF streamKey \in DOMAIN p.sess
                    THEN MapSet(MapDel(p.sess, streamKey), nextKey, p.sess[streamKey])
                    ELSE p.sess,
           akr |-> IF p.akr = streamKey THEN nextKey ELSE p.akr,
           snap |-> IF p.akr = streamKey THEN currentPath ELSE p.snap]

\* The updaters processLine passes to updateStreamPath.
StartUpdater(prev, userPendingId, serverUserId) ==
  [i \in 1..Len(prev) |->
     IF prev[i].id = userPendingId
     THEN [prev[i] EXCEPT !.id = IF serverUserId # Null THEN serverUserId ELSE prev[i].id,
                          !.pending = FALSE]
     ELSE prev[i]]

TokenUpdater(prev, assistantPendingId, content) ==
  [i \in 1..Len(prev) |->
     IF prev[i].id = assistantPendingId
     THEN [prev[i] EXCEPT !.content = content, !.pending = TRUE]
     ELSE prev[i]]

EndUpdater(prev, userPendingId, assistantPendingId, serverUserId, finalAssistantId, finalContent) ==
  [i \in 1..Len(prev) |->
     IF prev[i].id = assistantPendingId
     THEN [prev[i] EXCEPT !.id = IF finalAssistantId # Null THEN finalAssistantId ELSE prev[i].id,
                          !.content = finalContent, !.pending = FALSE]
     ELSE IF prev[i].id = userPendingId /\ serverUserId # Null
     THEN [prev[i] EXCEPT !.id = serverUserId, !.pending = FALSE]
     ELSE prev[i]]

\* The filters of the catch block.
CancelFilter(prev, userPendingId, assistantPendingId) ==
  SelectSeq(prev, LAMBDA msg : msg.id # assistantPendingId)
FailureFilter(prev, userPendingId, assistantPendingId) ==
  SelectSeq(prev, LAMBDA msg : msg.id # userPendingId /\ msg.id # assistantPendingId)

\* A read loop that goes on after the controller has been aborted.
ReadingAfterAbort(s) == sends[s].st \in {"open", "cancelled"}

\* The read loop of the send is waiting for fetch() or reader.read().
Reading(s) == sends[s].st = "open"
RECURSIVE FramesUsed(_)
FramesUsed(n) == IF n = 0 THEN 0 ELSE sends[n].frames + FramesUsed(n - 1)
\* One turn of the read loop: reader.read() resolves with a chunk, the
\* inner loop hands each line of it to processLine, and the page renders
\* when the loop awaits the next read.  Turn is what the lines processed so
\* far have left: the refs of the pane, the closures and the session objects
\* of the sends, the service, and whether setStreamVersion was called.
Turn(p, snd, srv, nxt, bump) ==
  [p |-> p, sends |-> snd, server |-> srv, nextSrv |-> nxt, bumpStream |-> bump]
TurnNow == Turn(PaneNow, sends, server, nextSrv, FALSE)
\* the session object registered under the send's streamKey, 0 if none
SessionIn(t, s) == MapGet(t.p.sess, t.sends[s].streamKey, 0)

\* The service stores the reply under a fresh id.
ServerReply(srv, me, aid) ==
  IF me.tree \notin SeqSet(srvTrees) THEN srv
  ELSE ServerStore(srv, aid, me.tree,
                   IF me.serverUserId # Null THEN me.serverUserId ELSE me.parent,
                   "assistant", EndContent)

\* processLine, {"type":"start","user_id": uid}
processStart(t, s, uid) ==
  LET me == t.sends[s]
      o == SessionIn(t, s)
      p == updatePathForKey(t.p, me.streamKey,
             StartUpdater(PathForKey(t.p, me.streamKey), me.userPendingId, uid))
      s1 == [t.sends EXCEPT ![s].serverUserId = uid, ![s].frames = me.frames + 1]
  IN Turn(p,
          IF o # 0 THEN [s1 EXCEPT ![o].userId = uid] ELSE s1,
          IF me.tree \in SeqSet(srvTrees)
          THEN ServerStore(t.server, uid, me.tree, me.parent, "user", me.trimmed)
          ELSE t.server,
          IF uid = Null THEN t.nextSrv ELSE t.nextSrv + 1,
          TRUE)

\* processLine, {"type":"token","delta": delta}
processToken(t, s, delta) ==
  LET me == t.sends[s]
      o == SessionIn(t, s)
      content == IF o # 0 THEN Append(t.sends[o].content, delta) ELSE <<delta>>
      p == updatePathForKey(t.p, me.streamKey,
             TokenUpdater(PathForKey(t.p, me.streamKey), me.assistantPendingId, content))
      \* tokens: the deltas the stream of this send has delivered so far
      s1 == [t.sends EXCEPT ![s].frames = me.frames + 1,
                            ![s].tokens = Append(me.tokens, delta)]
  IN Turn(p, IF o # 0 THEN [s1 EXCEPT ![o].content = content] ELSE s1,
          t.server, t.nextSrv, t.bumpStream)

\* processLine, {"type":"end","assistant_id": aid, "content": EndContent};
\* stored: the service has stored the reply before, and not as the frame is
\* processed.
processEnd(t, s, aid, stored) ==
  LET me == t.sends[s]
      o == SessionIn(t, s)
      p1 == updatePathForKey(t.p, me.streamKey,
              EndUpdater(PathForKey(t.p, me.streamKey), me.userPendingId,
                         me.assistantPendingId, me.serverUserId, aid, EndContent))
      nextKey == computeKey(me.tree, aid)
      p2 == IF aid # Null THEN migrateStreamKey(p1, me.streamKey, nextKey) ELSE p1
      s1 == [t.sends EXCEPT ![s].finalAssistantId = aid, ![s].finalContent = EndContent,
                            ![s].frames = me.frames + 1,
                            ![s].streamKey = IF aid # Null THEN nextKey ELSE me.streamKey]
  IN Turn(p2,
          IF o # 0
          THEN [s1 EXCEPT ![o].assistantId = aid, ![o].content = EndContent,
                          ![o].active = FALSE]
          ELSE s1,
          IF stored THEN t.server ELSE ServerReply(t.server, me, aid),
          IF stored \/ aid = Null THEN t.nextSrv ELSE t.nextSrv + 1,
          t.bumpStream)

\* The lines of a response body that processLine acts on.
StartLine(uid) == [type |-> "start", id |-> uid, delta |-> "", stored |-> FALSE]
TokenLine(delta) == [type |-> "token", id |-> Null, delta |-> delta, stored |-> FALSE]
EndLine(aid) == [type |-> "end", id |-> aid, delta |-> "", stored |-> FALSE]
StoredEndLine(aid) == [type |-> "end", id |-> aid, delta |-> "", stored |-> TRUE]

\* The ids the service can announce in a line: none, or the next fresh id;
\* in an end frame of a reply stored before, the id it was stored under.
LineOk(t, s, line) ==
  IF line.type = "token" THEN TRUE
  ELSE IF line.type = "end" /\ line.stored
    THEN /\ t.sends[s].stored # Null /\ t.sends[s].finalAssistantId = Null
         /\ line.id = t.sends[s].stored
  ELSE /\ line.type = "end" => t.sends[s].stored = Null
       /\ line.id \in {Null, SrvId(t.nextSrv)}

processFrame(t, s, line) ==
  IF line.type = "start" THEN processStart(t, s, line.id)
  ELSE IF line.type = "token" THEN processToken(t, s, line.delta)
  ELSE processEnd(t, s, line.id, line.stored)

\* while (newlineIndex >= 0) { ... processLine(raw) ... }
RECURSIVE processLines(_, _, _)
processLines(t, s, lines) ==
  IF lines = <<>> THEN t
  ELSE processLines(processFrame(t, s, Head(lines)), s, Tail(lines))
RECURSIVE LinesOk(_, _, _)
LinesOk(t, s, lines) ==
  IF lines = <<>> THEN TRUE
  ELSE IF LineOk(t, s, Head(lines))
    THEN LinesOk(processFrame(t, s, Head(lines)), s, Tail(lines))
  ELSE FALSE

\* The service sends at most MaxFrames frames in all, and the page is
\* observed for MaxSteps turns.
CanRead(s, n) ==
  /\ Reading(s)
  /\ FramesUsed(MaxSends) + n <= MaxFrames
  /\ steps + n <= MaxSteps
CanFrame(s) == Reading(s) /\ FramesUsed(MaxSends) < MaxFrames
\* the sends whose read loop can be handed a chunk of n lines
Readers(n) == {s \in 1..MaxSends : CanRead(s, n)}
\* the session object registered under the send's streamKey, 0 if none
SessionOf(s) == SessionIn(TurnNow, s)

IdChoices == {Null, SrvId(nextSrv)}
\* The ids of the lines of one read.
ReadIds == {Null} \cup {SrvId(nextSrv + i) : i \in 0..(MaxLines - 1)}
FreshLines ==
  {StartLine(id) : id \in ReadIds} \cup {TokenLine(d) : d \in Deltas}
    \cup {EndLine(id) : id \in ReadIds}
StoredLines(s) == FreshLines \cup {StoredEndLine(sends[s].stored)}

\* A read whose chunk holds the given lines, none of which throws: the
\* lines are processed in order, then the page renders.
readLines(s, lines) ==
  /\ CanRead(s, Len(lines))
  /\ LinesOk(TurnNow, s, lines)
  /\ LET t == processLines(TurnNow, s, lines)
     IN /\ sends' = t.sends
        /\ server' = t.server
        /\ nextSrv' = t.nextSrv
        /\ CommitTurn(Len(lines), lastSelectedNode, Null, blankTreeId, activeTreeId,
                      activeNodeId, graph, t.p, input, pathReqs, graphReqs,
                      FALSE, t.bumpStream)
  /\ UNCHANGED <<unreadMap, treeVars, now, gestures>>

\* A read with a start frame alone.
startFrame(s, uid) == readLines(s, <<StartLine(uid)>>)

\* A read with a token frame alone.
tokenFrame(s, delta) == readLines(s, <<TokenLine(delta)>>)

\* A read with an end frame alone, whose reply the service stores as the
\* frame is processed.
endFrame(s, aid) == readLines(s, <<EndLine(aid)>>)

\* A read with more than one line.
readFrames(s, lines) ==
  /\ Len(lines) > 1
  /\ readLines(s, lines)

\* The service stores the reply of a stream; the end frame that announces
\* its id is on its way to the page.
serviceStoresReply(s) ==
  /\ Reading(s)
  /\ sends[s].stored = Null /\ sends[s].finalAssistantId = Null
  /\ server' = ServerReply(server, sends[s], SrvId(nextSrv))
  /\ nextSrv' = nextSrv + 1
  /\ sends' = [sends EXCEPT ![s].stored = SrvId(nextSrv)]
  /\ UNCHANGED <<homeVars, paneVars, now, gestures, steps, partVars>>

\* A read with the end frame of a reply the service has stored before.
endFrameStored(s) ==
  /\ sends[s].stored # Null
  /\ readLines(s, <<StoredEndLine(sends[s].stored)>>)

\* A read with more than one line, one of them the end frame of a reply the
\* service has stored before.
readFramesStored(s, lines) ==
  /\ Len(lines) > 1
  /\ \E i \in 1..Len(lines) : lines[i].stored
  /\ readLines(s, lines)

\* The catch block of send(), after the lines that left t; cancelled is
\* err.name === 'AbortError'.
CatchFrom(cost, t, s, cancelled) ==
  LET me == t.sends[s]
      prev == PathForKey(t.p, me.streamKey)
      p1 == updatePathForKey(t.p, me.streamKey,
              IF cancelled
              THEN CancelFilter(prev, me.userPendingId, me.assistantPendingId)
              ELSE FailureFilter(prev, me.userPendingId, me.assistantPendingId))
      home == handlePendingUserMessageFailed(graph, activeNodeId, me.userPendingId, me.parent)
      p2 == [p1 EXCEPT !.store = MapDel(p1.store, me.streamKey),
                       !.sess = MapDel(p1.sess, me.streamKey),
                       !.sending = p1.sending \ {me.streamKey}]
  IN /\ CommitTurn(cost, lastSelectedNode, Null, blankTreeId, activeTreeId, home.node,
                   home.graph, p2, IF cancelled THEN input ELSE me.trimmed,
                   pathReqs, graphReqs, TRUE, TRUE)
     /\ sends' = [t.sends EXCEPT ![s].st = IF cancelled THEN "cancelled" ELSE "failed"]

\* The catch block of a send whose turn has processed no line.
Catch(s, cancelled) == CatchFrom(1, TurnNow, s, cancelled)

\* A read whose only line is not JSON, or is {"type":"error"}: processLine
\* throws.
errorFrame(s) ==
  /\ CanFrame(s)
  /\ Catch(s, FALSE)
  /\ UNCHANGED <<unreadMap, treeVars, envVars>>

\* A read in which processLine throws after the given lines.
readFramesThrows(s, lines) ==
  /\ Len(lines) > 0
  /\ CanRead(s, Len(lines) + 1)
  /\ LinesOk(TurnNow, s, lines)
  /\ LET t == processLines(TurnNow, s, lines)
     IN /\ CatchFrom(Len(lines) + 1, t, s, FALSE)
        /\ server' = t.server
        /\ nextSrv' = t.nextSrv
  /\ UNCHANGED <<unreadMap, treeVars, now, gestures>>

\* fetch() or reader.read() rejects, or the response is not OK.
transportError(s) ==
  /\ Reading(s)
  /\ Catch(s, FALSE)
  /\ UNCHANGED <<unreadMap, treeVars, envVars>>

\* reader.read() resolves done: the code after the read loop.
streamClosed(s) ==
  /\ Reading(s)
  /\ LET me == sends[s]
     IN IF me.finalAssistantId = Null
        THEN Catch(s, FALSE) /\ UNCHANGED unreadMap
        ELSE LET p == [PaneNow EXCEPT !.sess = MapDel(streamSessions, me.streamKey),
                                      !.sending = sendingKeys \ {me.streamKey}]
                 home == handleAfterSend(graph, activeNodeId, activeTreeId, blankTreeId,
                                         me.blank, graphReqs, unreadMap,
                                         me.finalAssistantId, me.tree, me.userPendingId)
             IN /\ CommitWith(lastSelectedNode, Null, home.blank, activeTreeId, home.node,
                              home.graph, p, input, pathReqs, home.greqs, TRUE, TRUE)
                /\ unreadMap' = home.unread
                /\ sends' = [sends EXCEPT ![s].st = "completed"]
  /\ UNCHANGED <<treeVars, envVars>>

\* isStreaming = Boolean(activeStream?.active): the Stop button is rendered.
isStreaming == activeStream # 0 /\ sends[activeStream].active

\* A Stop that aborts a session whatever key it is registered under.
handleStopStreamAnySession ==
  /\ isStreaming
  /\ \E session \in 1..MaxSends :
       /\ sends[session].st = "open"
       /\ Catch(session, TRUE)
  /\ UNCHANGED <<unreadMap, treeVars, envVars>>

\* handleStopStream: session.controller.abort().  abort() rejects the pending
\* fetch() / reader.read() with AbortError at once, so the catch block of the
\* aborted send runs in the microtasks of the same turn.
handleStopStream ==
  /\ isStreaming
  /\ LET session == MapGet(streamSessions, currentKey, 0)
     IN /\ session # 0
        /\ sends[session].st = "open"
        /\ Catch(session, TRUE)
  /\ UNCHANGED <<unreadMap, treeVars, envVars>>

Next ==
  \/ ensureInitialTree
  \/ ensureInitialTreeFailed
  \/ \E t \in AllTreeIds : handleSelectTree(t)
  \/ \E i \in 1..Len(graph.nodes) : onSelectNode(graph.nodes[i].id)
  \/ \E req \in DOMAIN graphReqs : refreshGraph(req)
  \/ \E txt \in Texts \cup BlankTexts : setInput(txt)
  \/ \E req \in DOMAIN pathReqs : loadPath(req)
  \/ \E req \in DOMAIN pathReqs : loadPathFailed(req)
  \/ \E s \in 1..MaxSends : send(s)
  \/ sendRejected
  \/ sendEnsureTree
  \/ \E req \in DOMAIN listReqs, s \in 1..MaxSends : ensureActiveTreeDone(req, s)
  \/ \E req \in DOMAIN listReqs : ensureActiveTreeFailed(req)
  \/ \E s \in 1..MaxSends, uid \in IdChoices : startFrame(s, uid)
  \/ \E s \in 1..MaxSends, delta \in Deltas : tokenFrame(s, delta)
  \/ \E s \in 1..MaxSends, aid \in IdChoices : endFrame(s, aid)
  \/ \E s \in Readers(2) : \E n \in 2..MaxLines : \E lines \in [1..n -> FreshLines] :
       readFrames(s, lines)
  \/ \E s \in 1..MaxSends : errorFrame(s)
  \/ \E s \in Readers(2) : \E n \in 1..(MaxLines - 1) : \E lines \in [1..n -> FreshLines] :
       readFramesThrows(s, lines)
  \/ \E s \in 1..MaxSends : transportError(s)
  \/ \E s \in 1..MaxSends : streamClosed(s)
  \/ handleStopStream
  \/ handleScroll
  \/ handleDeleteActive
  \/ \E req \in DOMAIN listReqs : deleteNodeDone(req)
  \/ \E req \in DOMAIN listReqs : deleteNodeFailed(req)

Spec == Init /\ [][Next]_vars

\* The user sends once.
OneSend == \A s \in 2..MaxSends : sends'[s].st = "idle"
\* The user types a text to send, into the composer that holds none.
TypesToSend == input' = input \/ sends' # sends \/ (Len(Trim(input)) = 0 /\ input' \in Texts)
\* The reply of the send arrives in its end frame: the stream has no token frame.
ReplyAtEnd == \A s \in 1..MaxSends : sends'[s].tokens = sends[s].tokens

\* The page with the handlers of the list of conversations and the fork of
\* a branch, for a user who sends once and types only a text to send, and a
\* service that replies without token frames.
ListNext ==
  \/ Next /\ OneSend /\ TypesToSend /\ ReplyAtEnd
  \/ handleCreateTree
  \/ handleForkActive
  \/ \E t \in AllTreeIds : handleStartRename(t)
  \/ handleCancelRename
  \/ \E same \in BOOLEAN : handleRenameSubmit(same)
  \/ \E t \in AllTreeIds : handleDeleteTree(t)
  \/ \E req \in DOMAIN listReqs : discardDone(req)
  \/ \E req \in DOMAIN listReqs : createDone(req)
  \/ \E req \in DOMAIN listReqs : createFailed(req)
  \/ \E req \in DOMAIN listReqs : forkDone(req)
  \/ \E req \in DOMAIN listReqs : forkFailed(req)
  \/ \E req \in DOMAIN listReqs : renameDone(req)
  \/ \E req \in DOMAIN listReqs : renameFailed(req)
  \/ \E req \in DOMAIN listReqs : deleteTreeDone(req)
  \/ \E req \in DOMAIN listReqs : deleteTreeFailed(req)
  \/ \E req \in DOMAIN graphReqs : refreshGraphFailed(req)

ListSpec == Init /\ [][ListNext]_vars

\* The page with a service whose reply to the first send is stored, and can
\* be fetched, before the page has processed the frame that announces it,
\* for a user who sends once.
EarlyNext ==
  \/ Next /\ OneSend
  \/ serviceStoresReply(1)
  \/ endFrameStored(1)
  \/ \E s \in Readers(2) \cap {1} : \E n \in 2..MaxLines : \E lines \in [1..n -> StoredLines(s)] :
       readFramesStored(s, lines)

EarlySpec == Init /\ [][EarlyNext]_vars

\* ------------------------------------------- the functions, applied alone
\* The page at rest while one of its functions is applied to drawn inputs.
AtRest == UNCHANGED <<activeTreeId, activeNodeId, graph, blankTreeId, lastSelectedNode, graphReqs, treeVars,
                      paneVars, sends, envVars, steps>>

\* The unread maps the three operations are applied to: no tree is kept
\* with an empty set.
MaxUnread == 3
UnreadNodes == {SrvId(i) : i \in 1..MaxUnread}
UnreadMaps ==
  UNION {[ts -> (SUBSET UnreadNodes) \ {{}}] : ts \in SUBSET TreeIds}

UnreadInit ==
  /\ PageInit
  /\ unreadMap \in UnreadMaps
  /\ view = ViewInit
  /\ reader = ReaderIdle
  /\ call = NoCall

callMarkNodeUnread(treeId, nodeId) ==
  /\ unreadMap' = markNodeUnread(unreadMap, treeId, nodeId)
  /\ call' = [fn |-> "markNodeUnread", tree |-> treeId, node |-> nodeId, before |-> unreadMap]
  /\ AtRest /\ UNCHANGED <<view, reader>>

callMarkNodeRead(treeId, nodeId) ==
  /\ unreadMap' = markNodeRead(unreadMap, treeId, nodeId)
  /\ call' = [fn |-> "markNodeRead", tree |-> treeId, node |-> nodeId, before |-> unreadMap]
  /\ AtRest /\ UNCHANGED <<view, reader>>

callPruneUnreadForTree(treeId, validIds) ==
  /\ unreadMap' = pruneUnreadForTree(unreadMap, treeId, validIds)
  /\ call' = [fn |-> "pruneUnreadForTree", tree |-> treeId, valid |-> validIds, before |-> unreadMap]
  /\ AtRest /\ UNCHANGED <<view, reader>>

UnreadNext ==
  \/ \E t \in TreeIds \cup {NoTree}, n \in UnreadNodes \cup {Null} : callMarkNodeUnread(t, n)
  \/ \E t \in TreeIds \cup {NoTree}, n \in UnreadNodes \cup {Null} : callMarkNodeRead(t, n)
  \/ \E t \in TreeIds, valid \in SUBSET UnreadNodes : callPruneUnreadForTree(t, valid)

UnreadSpec == UnreadInit /\ [][UnreadNext]_vars

\* layoutNodes: the node lists 1..k and every edge list of at most MaxEdges
\* edges over them; SrvId(0) is a node that is not in the list.
EdgePairs(k) == {[source |-> SrvId(s), target |-> SrvId(t)] : s \in 0..k, t \in 1..k}
LayoutGraph(k, e) == [nodes |-> [i \in 1..k |-> [id |-> SrvId(i)]], edges |-> e]

LayoutInit ==
  /\ PageInit
  /\ unreadMap = EmptyUnread
  /\ view = ViewInit
  /\ reader = ReaderIdle
  /\ \E k \in 0..MaxNodes, m \in 0..MaxEdges :
       \E e \in [1..m -> EdgePairs(k)] :
         call = [fn |-> "layoutNodes", data |-> LayoutGraph(k, e), runs |-> <<>>]

\* One run of layoutNodes on the data; a run whose walk never ends returns
\* nothing.
layoutRun ==
  /\ Len(call.runs) < MaxRuns
  /\ LayoutEnds(call.data)
  /\ call' = [call EXCEPT !.runs = Append(call.runs, layoutNodes(call.data))]
  /\ AtRest /\ UNCHANGED <<unreadMap, view, reader>>

LayoutNext == layoutRun

LayoutSpec == LayoutInit /\ [][LayoutNext]_vars

\* clamp: every triple of even integers up to 2 * MaxCoord in size.
Coords == {2 * i : i \in (0 - MaxCoord)..MaxCoord}

ClampInit ==
  /\ PageInit
  /\ unreadMap = EmptyUnread
  /\ view = ViewInit
  /\ reader = ReaderIdle
  /\ call \in {[fn |-> "clamp", value |-> v, min |-> lo, max |-> hi, returned |-> FALSE, result |-> 0] :
                 v \in Coords, lo \in Coords, hi \in Coords}

clampRun ==
  /\ ~call.returned
  /\ call' = [call EXCEPT !.returned = TRUE, !.result = clamp(call.value, call.min, call.max)]
  /\ AtRest /\ UNCHANGED <<unreadMap, view, reader>>

ClampNext == clampRun

ClampSpec == ClampInit /\ [][ClampNext]_vars

\* The read loop: every body of at most MaxBody bytes, split into reads in
\* every way.
Bodies == UNION {[1..n -> Bytes] : n \in 0..MaxBody}

ReadInit ==
  /\ PageInit
  /\ unreadMap = EmptyUnread
  /\ view = ViewInit
  /\ call = NoCall
  /\ reader \in {Reader(b) : b \in Bodies}

ReadNext ==
  \/ \E n \in 1..MaxBody : readChunk(n)
  \/ readDone

ReadSpec == ReadInit /\ [][ReadNext]_vars

\* ChatGraph under a page that hands it one graph after another.
ViewNext ==
  \/ \E data \in ViewGraphs : showData(data)
  \/ \E sized \in BOOLEAN : fitFrame(sized)
  \/ \E fullyVisible \in BOOLEAN : followFrame(fullyVisible)

ViewSpec == Init /\ [][ViewNext]_vars

\* ------------------------------------------------------------ vocabulary
\* What the statements below speak of: the ids a send gave to its entries,
\* the paths that hold one of them, the steps of a session.
UserIdsOf(s) ==
  {sends[s].userPendingId} \cup
  (IF sends[s].serverUserId # Null THEN {sends[s].serverUserId} ELSE {})
AssistantIdsOf(s) ==
  {sends[s].assistantPendingId} \cup
  (IF sends[s].finalAssistantId # Null THEN {sends[s].finalAssistantId} ELSE {})
TempIdsOf(s) == {sends[s].userPendingId, sends[s].assistantPendingId}

PathHolds(path, ids) == SeqIds(path) \cap ids # {}
CacheHolds(store, ids) == \E k \in DOMAIN store : PathHolds(store[k], ids)
GraphHolds(g, ids) ==
  \/ \E i \in 1..Len(g.nodes) : g.nodes[i].id \in ids
  \/ \E i \in 1..Len(g.edges) : g.edges[i].source \in ids \/ g.edges[i].target \in ids

Accepted(s) == sends[s].st = "idle" /\ sends'[s].st = "open"
\* a turn of the read loop of s that has processed frames and has not thrown
FrameStep(s) ==
  sends[s].st = "open" /\ sends'[s].st = "open" /\ sends'[s].frames > sends[s].frames
\* the turn in which the send ends: the code after the read loop, or the
\* catch block, also after frames processed in the same turn
Ended(s, how) == sends[s].st = "open" /\ sends'[s].st = how
TerminalStep(s) == Ended(s, "completed") \/ Ended(s, "failed") \/ Ended(s, "cancelled")
\* s is the only send that has been made
Alone(s) == \A o \in 1..MaxSends : o # s => sends[o].st = "idle"

\* C1: once a send is completed, the cache holds under (tree, assistant id)
\* the pre-send path followed by a user entry and an assistant entry that
\* are both confirmed (pending = FALSE), whatever frames led to completion.
C1_CompletedPathConfirmed ==
  \A s \in 1..MaxSends :
    sends[s].st = "completed" =>
      LET me == sends[s]
          key == computeKey(me.tree, me.finalAssistantId)
          n == Len(me.basePath)
      IN /\ key \in DOMAIN pathStore
         /\ Len(pathStore[key]) = n + 2
         /\ SubSeq(pathStore[key], 1, n) = me.basePath
         /\ pathStore[key][n + 1].role = "user"
         /\ ~pathStore[key][n + 1].pending
         /\ pathStore[key][n + 2].role = "assistant"
         /\ ~pathStore[key][n + 2].pending

\* C2: the step in which send() accepts a message leaves, under the
\* provisional key (tree, temporary user id), the path the cache held for the
\* base branch followed by the user entry (trimmed text, pending) and the
\* assistant entry (empty content, pending).
C2_ProvisionalPath ==
  [][\A s \in 1..MaxSends :
       Accepted(s) =>
         LET key == computeKey(sends'[s].tree, sends'[s].userPendingId)
         IN /\ key \in DOMAIN pathStore'
            /\ sends'[s].trimmed # <<>> /\ Trim(sends'[s].trimmed) = sends'[s].trimmed
            /\ pathStore'[key] =
                 MapGet(pathStore, sends'[s].baseKey, <<>>) \o
                 << [role |-> "user", content |-> sends'[s].trimmed, pending |-> TRUE,
                     id |-> sends'[s].userPendingId],
                    [role |-> "assistant", content |-> <<>>, pending |-> TRUE,
                     id |-> sends'[s].assistantPendingId] >>]_vars

\* C2 as amended: the base is the base branch's cached path, and, when the
\* cache holds no path for the base branch, the displayed path if the base
\* branch is the displayed one and the empty path if it is not (a send made
\* with no tree on display, for the tree the page hands out).
C2_ProvisionalPathFromBase ==
  [][\A s \in 1..MaxSends :
       Accepted(s) =>
         LET key == computeKey(sends'[s].tree, sends'[s].userPendingId)
             baseKey == computeKey(sends'[s].tree, effectiveNodeId(activeNodeId, graph))
             base == IF baseKey \in DOMAIN pathStore THEN pathStore[baseKey]
                     ELSE IF baseKey = currentKey THEN pathSnapshot ELSE <<>>
         IN /\ key \in DOMAIN pathStore'
            /\ sends'[s].trimmed # <<>> /\ Trim(sends'[s].trimmed) = sends'[s].trimmed
            /\ pathStore'[key] =
                 base \o
                 << [role |-> "user", content |-> sends'[s].trimmed, pending |-> TRUE,
                     id |-> sends'[s].userPendingId],
                    [role |-> "assistant", content |-> <<>>, pending |-> TRUE,
                     id |-> sends'[s].assistantPendingId] >>]_vars

\* C2 witness: a send has been accepted on a branch the cache holds no path
\* for, its provisional path starts with the displayed path, and no frame
\* has arrived for it.
C2_Witness ==
  \E s \in 1..MaxSends :
    /\ sends[s].st = "open" /\ sends[s].frames = 0
    /\ sends[s].baseKey \notin DOMAIN pathStore
    /\ sends[s].streamKey \in DOMAIN pathStore
    /\ LET path == pathStore[sends[s].streamKey]
           n == Len(path)
       IN /\ n > 2
          /\ path[n - 1].content = <<"h">> /\ path[n - 1].pending
          /\ path[n].content = <<>> /\ path[n].pending

\* C3: after the step in which a stream fails before an end frame (transport
\* error, malformed frame, error frame, after any start and token frames),
\* the cache holds for the branch the path the send snapshotted and nothing
\* under the send's key, the composer holds the sent text, and the graph has
\* no node with a temporary id of the send.
C3_CacheEqualsSnapshot ==
  [][\A s \in 1..MaxSends :
       (Ended(s, "failed") /\ sends[s].finalContent = <<>>) =>
         /\ sends[s].streamKey \notin DOMAIN pathStore'
         /\ MapGet(pathStore', sends[s].baseKey, <<>>) = sends[s].basePath
         /\ input' = sends[s].trimmed
         /\ ~GraphHolds(graph', TempIdsOf(s))]_vars

\* C4: after the step in which a session ends failed, no displayed path,
\* cached path or graph element holds the user entry or the assistant entry
\* of its send; after the step in which it ends cancelled, none holds the
\* assistant placeholder.  Stated for a send that is the only one made.
C4_NoResidue ==
  [][\A s \in 1..MaxSends :
       /\ (Ended(s, "failed") /\ Alone(s)) =>
            /\ ~PathHolds(pathSnapshot', UserIdsOf(s) \cup AssistantIdsOf(s))
            /\ ~CacheHolds(pathStore', UserIdsOf(s) \cup AssistantIdsOf(s))
            /\ ~GraphHolds(graph', TempIdsOf(s))
       /\ (Ended(s, "cancelled") /\ Alone(s)) =>
            /\ ~PathHolds(pathSnapshot', {sends[s].assistantPendingId})
            /\ ~CacheHolds(pathStore', {sends[s].assistantPendingId})
            /\ ~GraphHolds(graph', {sends[s].assistantPendingId})]_vars

\* C5: the step that handles a cancellation keeps the user message of the
\* send in the path of its branch (cached or displayed) and keeps its node
\* in the graph.
C5_CancelKeepsUser ==
  [][\A s \in 1..MaxSends :
       Ended(s, "cancelled") =>
         /\ PathHolds(pathSnapshot', UserIdsOf(s)) \/ CacheHolds(pathStore', UserIdsOf(s))
         /\ GraphHolds(graph', UserIdsOf(s))]_vars

\* C6: after the step in which a session is cancelled, whatever the number
\* of token frames before, no cached path and no displayed path holds an
\* entry with the temporary assistant id of its send.
C6_CancelDropsPlaceholder ==
  [][\A s \in 1..MaxSends :
       Ended(s, "cancelled") =>
         /\ ~CacheHolds(pathStore', {sends[s].assistantPendingId})
         /\ ~PathHolds(pathSnapshot', {sends[s].assistantPendingId})]_vars

\* C7: no two sends are in flight for the same branch (tree, parent node).
C7_OneSendPerBranch ==
  \A s \in 1..MaxSends : \A o \in 1..MaxSends :
    (s # o /\ sends[s].st = "open" /\ sends[o].st = "open") =>
      <<sends[s].tree, sends[s].parent>> # <<sends[o].tree, sends[o].parent>>

\* C8: any two accepted sends have different temporary user ids and
\* different temporary assistant ids.
C8_DistinctTemporaryIds ==
  \A s \in 1..MaxSends : \A o \in 1..MaxSends :
    (s # o /\ sends[s].st # "idle" /\ sends[o].st # "idle") =>
      /\ sends[s].userPendingId # sends[o].userPendingId
      /\ sends[s].assistantPendingId # sends[o].assistantPendingId

C10_DisplayedOnlyIfActive ==
  [][\A s \in 1..MaxSends :
       (/\ FrameStep(s) \/ TerminalStep(s)
        /\ Alone(s)
        /\ pathSnapshot' # pathSnapshot) =>
         sends[s].streamKey = activeKeyRef]_vars

\* C10 as amended: a frame of a session changes the displayed path only if
\* the session's key is the active key when the frame is applied; a terminal
\* step changes it only if the key is the active key or the step changes
\* the key on display (it moves the selection, or removes the node the pane
\* took for the root), and the path of the new key is then displayed.
C10_FramesOnlyIfActive ==
  [][\A s \in 1..MaxSends :
       /\ (FrameStep(s) /\ pathSnapshot' # pathSnapshot) =>
            \/ sends[s].streamKey = activeKeyRef
            \* a read of several lines: the key the session has migrated to
            \* is the active key when a later line of the read is processed
            \/ /\ sends'[s].frames > sends[s].frames + 1
               /\ sends'[s].streamKey # sends[s].streamKey
               /\ sends'[s].streamKey = activeKeyRef'
       /\ (TerminalStep(s) /\ pathSnapshot' # pathSnapshot) =>
            \/ sends[s].streamKey = activeKeyRef
            \/ /\ activeKeyRef' # activeKeyRef
               /\ pathSnapshot' = MapGet(pathStore', activeKeyRef', <<>>)]_vars

\* C10 witness: the first send was made on one tree, the user went to the
\* other tree (the only navigation) and sent there, and the first send then
\* received a start frame while the displayed path was that of the other
\* tree.
C10_Witness ==
  /\ sends[1].st = "open" /\ sends[2].st = "open"
  /\ sends[1].tree # sends[2].tree
  /\ gestures = 1
  /\ sends[1].serverUserId # Null /\ sends[2].serverUserId # Null
  /\ sends[1].serverUserId.n > sends[2].serverUserId.n
  /\ activeKeyRef = sends[2].streamKey
  /\ ~PathHolds(pathSnapshot, {sends[1].serverUserId})

\* C11: at the end of every turn, if the cache holds a path under the active
\* key, the displayed path is that path.
C11_DisplayedIsCached ==
  activeKeyRef \in DOMAIN pathStore => pathSnapshot = pathStore[activeKeyRef]

\* The keys a send has had: its provisional key and its key now.
KeysOf(s) == {computeKey(sends[s].tree, sends[s].userPendingId), sends[s].streamKey}

\* C12: after the step in which a session ends completed, failed or
\* cancelled, the sending set and the session registry hold nothing under
\* its provisional key or its migrated key, and the registry does not hold
\* the session under any key.
C12_TerminalRemovesSession ==
  [][\A s \in 1..MaxSends :
       TerminalStep(s) =>
         /\ KeysOf(s) \cap sendingKeys' = {}
         /\ KeysOf(s) \cap DOMAIN streamSessions' = {}
         /\ \A k \in DOMAIN streamSessions' : streamSessions'[k] # s]_vars

\* C13: while a session is open and has received no end frame, its cached
\* path holds the assistant placeholder, pending, and the placeholder's
\* content is the concatenation, in arrival order, of the deltas of the
\* token frames received so far.
C13_TokensInOrder ==
  \A s \in 1..MaxSends :
    (sends[s].st = "open" /\ sends[s].finalContent = <<>>) =>
      /\ sends[s].streamKey \in DOMAIN pathStore
      /\ \E i \in 1..Len(pathStore[sends[s].streamKey]) :
           LET msg == pathStore[sends[s].streamKey][i]
           IN /\ msg.id = sends[s].assistantPendingId
              /\ msg.pending
              /\ msg.content = sends[s].tokens

\* C14: Stop ends the session on display as cancelled in the same turn,
\* without processing a frame; and once a session is cancelled it stays
\* cancelled and no frame of it is processed: its frame count, the deltas
\* it received and its accumulated content stay as they are.
C14_NoFrameAfterCancel ==
  [][/\ \A s \in 1..MaxSends :
          sends[s].st = "cancelled" =>
            /\ sends'[s].st = "cancelled"
            /\ sends'[s].frames = sends[s].frames
            /\ sends'[s].tokens = sends[s].tokens
            /\ sends'[s].content = sends[s].content
     /\ handleStopStream =>
          LET session == streamSessions[currentKey]
          IN /\ sends'[session].st = "cancelled"
             /\ sends'[session].frames = sends[session].frames
             /\ sends'[session].content = sends[session].content]_vars

\* C14 witness: a session was cancelled after a token frame, and a frame
\* was processed for another session afterwards (the second send is made
\* from the branch the cancellation returned to).
C14_Witness ==
  /\ sends[1].st = "cancelled" /\ sends[1].tokens # <<>>
  /\ sends[2].st = "open" /\ sends[2].frames > 0
  /\ sends[2].userPendingId # sends[1].userPendingId

\* C15: a transport error, a line that is not JSON or an error frame, and a
\* stream that closes with no assistant id received, each end the session
\* failed; after the failing step of a session that received no assistant
\* id, the cache holds no path under its key (the path whose placeholder
\* carried the accumulated content), and the registry holds no session
\* under its key and does not hold the session under any key.
C15_FailureDiscardsContent ==
  [][\A s \in 1..MaxSends :
       /\ (\/ errorFrame(s)
           \/ transportError(s)
           \/ streamClosed(s) /\ sends[s].finalAssistantId = Null) => Ended(s, "failed")
       /\ (Ended(s, "failed") /\ sends[s].finalAssistantId = Null) =>
            /\ sends[s].streamKey \notin DOMAIN pathStore'
            /\ sends[s].streamKey \notin DOMAIN streamSessions'
            /\ \A k \in DOMAIN streamSessions' : streamSessions'[k] # s]_vars

\* C16: a frame that is out of sequence is not applied (it ends the session
\* failed instead): the first frame applied to a session is not a token
\* frame or an end frame, and no frame is applied to a session after its end
\* frame.
C16_OutOfSequenceFails ==
  [][\A s \in 1..MaxSends :
       FrameStep(s) =>
         /\ sends[s].frames = 0 =>
              /\ sends'[s].tokens = sends[s].tokens
              /\ sends'[s].finalContent = sends[s].finalContent
         /\ sends[s].finalContent = <<>>]_vars

\* C17: a send with empty or whitespace-only text, and a send with no
\* target tree (up to the request for one, and when the request is refused),
\* changes nothing: the cache, the displayed path, the sending set, the
\* registry, the graph, the selection and the composer are as before (no
\* callback of the page that writes them has run) and no stream is opened;
\* and every send that is accepted has a non-empty trimmed text and a tree.
C17_RejectedSendChangesNothing ==
  [][/\ (sendRejected \/ sendEnsureTree
           \/ \E req \in DOMAIN listReqs : ensureActiveTreeFailed(req)) =>
            /\ pathStore' = pathStore /\ pathSnapshot' = pathSnapshot
            /\ sendingKeys' = sendingKeys /\ streamSessions' = streamSessions
            /\ graph' = graph /\ activeNodeId' = activeNodeId
            /\ activeTreeId' = activeTreeId
            /\ input' = input
            /\ sends' = sends
     /\ \A s \in 1..MaxSends :
          Accepted(s) => sends'[s].trimmed # <<>> /\ sends'[s].tree # NoTree]_vars

\* C17 witness: before the list of trees has arrived the user has typed a
\* text and sent it, and the service has refused the tree: the request is
\* over, the composer holds the text and no send exists.
C17_Witness ==
  /\ ~treesLoaded /\ ~isLoadingTrees
  /\ listReqs = NoReqs
  /\ input = <<" ", "h", " ">>
  /\ \A s \in 1..MaxSends : sends[s].st = "idle"
  /\ sendingKeys = {} /\ DOMAIN streamSessions = {}

\* The step in which the key of an open session changes, and the send does
\* not fail in the same turn (the catch block would delete the new key).
Migrated(s) ==
  sends[s].st = "open" /\ sends'[s].st = "open" /\ sends'[s].streamKey # sends[s].streamKey

\* C18: the step that migrates a session from its old key to its new key
\* leaves under the new key every message the old key held (the two entries
\* of the send as the end frame confirmed them, the others untouched), leaves
\* the old key in neither cache, sending set nor registry, moves the sending
\* flag and the session object to the new key, makes the new key the active
\* key and shows its path if the old key was active (and leaves active key
\* and displayed path alone otherwise), and touches no other cache entry;
\* migrating a session to the key it has changes nothing.
C18_MigrationMovesAll ==
  [][\A s \in 1..MaxSends :
       /\ Migrated(s) =>
            LET old == sends[s].streamKey
                new == sends'[s].streamKey
            IN /\ new \in DOMAIN pathStore'
               /\ old \in DOMAIN pathStore =>
                    /\ Len(pathStore'[new]) = Len(pathStore[old])
                    /\ \A i \in 1..Len(pathStore[old]) :
                         \/ pathStore'[new][i] = pathStore[old][i]
                         \/ /\ pathStore[old][i].id \in TempIdsOf(s)
                            /\ pathStore'[new][i].role = pathStore[old][i].role
               /\ old \notin DOMAIN pathStore'
               /\ old \notin sendingKeys'
               /\ old \notin DOMAIN streamSessions'
               /\ old \in sendingKeys => new \in sendingKeys'
               /\ old \in DOMAIN streamSessions =>
                    /\ new \in DOMAIN streamSessions'
                    /\ streamSessions'[new] = streamSessions[old]
               /\ activeKeyRef = old => activeKeyRef' = new /\ pathSnapshot' = pathStore'[new]
               /\ activeKeyRef # old =>
                    /\ activeKeyRef' = activeKeyRef
                    /\ \/ pathSnapshot' = pathSnapshot
                       \* a line that follows the migration in the same read
                       \* has updated the path of the new key, which is active
                       \/ /\ sends'[s].frames > sends[s].frames + 1
                          /\ activeKeyRef = new
                          /\ pathSnapshot' = pathStore'[new]
               /\ \A k \in (DOMAIN pathStore \cup DOMAIN pathStore') \ {old, new} :
                    k \in DOMAIN pathStore /\ k \in DOMAIN pathStore' /\ pathStore'[k] = pathStore[k]
       /\ sends[s].st = "open" =>
            migrateStreamKey(PaneNow, sends[s].streamKey, sends[s].streamKey) = PaneNow]_vars

\* C18 witness: a session has migrated while its old key was the active
\* key; the confirmed key is the active key, holds the path on display with
\* the final content, and carries the sending flag and the session.
C18_Witness ==
  \E s \in 1..MaxSends :
    /\ sends[s].st = "open" /\ sends[s].finalAssistantId # Null
    /\ sends[s].streamKey = computeKey(sends[s].tree, sends[s].finalAssistantId)
    /\ activeKeyRef = sends[s].streamKey
    /\ sends[s].streamKey \in DOMAIN pathStore
    /\ pathSnapshot = pathStore[sends[s].streamKey]
    /\ Len(pathSnapshot) > Len(sends[s].basePath)
    /\ sends[s].streamKey \in sendingKeys
    /\ MapGet(streamSessions, sends[s].streamKey, 0) = s
    /\ computeKey(sends[s].tree, sends[s].userPendingId) \notin DOMAIN pathStore

\* The roles and contents of a displayed or cached path.
Plain(path) == [i \in 1..Len(path) |-> [role |-> path[i].role, content |-> path[i].content]]

\* C19: every cached path under a key (tree, node) whose node the service
\* has stored in that tree is the service's ancestor chain of the node, from
\* the root to the node.  Stated for the nodes the service announced in
\* order: the key a send has migrated to counts if its stream delivered the
\* id of the user node before the id of the assistant node.
C19_ConfirmedPathIsServerChain ==
  \A k \in DOMAIN pathStore :
    (/\ k[2].k = "srv"
     /\ ServerHas(server, k[1], k[2])
     /\ \A s \in 1..MaxSends :
          sends[s].streamKey = k =>
            /\ sends[s].serverUserId # Null
            /\ sends[s].serverUserId.n < k[2].n) =>
      Plain(pathStore[k]) = ServerPath(server, k[2])

\* C20: a step that changes the rendered key to a key the cache has no
\* path for leaves the displayed path empty and a fetch of the node's
\* ancestor path in flight; if the node of the new key is null, the cache
\* gets the empty path under the key and no fetch is started.  The step in
\* which a fetch is answered puts the fetched path under the key it was
\* started for, displays it if that key is the active key, and leaves the
\* displayed path alone if it is not.
C20_MissThenPopulate ==
  [][/\ LET key == currentKeyOf(activeTreeId', activeNodeId', graph')
            eff == effectiveNodeId(activeNodeId', graph')
        IN key # currentKey =>
             /\ (eff # Null /\ key \notin DOMAIN pathStore') =>
                  /\ pathSnapshot' = <<>>
                  /\ [key |-> key, nodeId |-> eff] \in DOMAIN pathReqs'
             /\ eff = Null =>
                  /\ key \in DOMAIN pathStore' /\ pathStore'[key] = <<>>
                  /\ pathSnapshot' = <<>>
                  /\ pathReqs' = pathReqs
     /\ \A req \in DOMAIN pathReqs :
          loadPath(req) =>
            LET fetched == ShapePath(ServerPath(server, req.nodeId))
            IN /\ req.key \in DOMAIN pathStore' /\ pathStore'[req.key] = fetched
               /\ req.key = activeKeyRef => pathSnapshot' = fetched
               /\ req.key # activeKeyRef => pathSnapshot' = pathSnapshot]_vars

\* C20 witness: a fetch has been answered for a key that is not the active
\* key - its path is in the cache - while the fetch for the active key is
\* in flight and the displayed path is empty.
C20_Witness ==
  \E k \in DOMAIN pathStore :
    /\ k # activeKeyRef /\ k[1] = activeTreeId /\ k[2].k = "srv"
    /\ pathStore[k] # <<>>
    /\ activeKeyRef \notin DOMAIN pathStore
    /\ \E req \in DOMAIN pathReqs : req.key = activeKeyRef
    /\ pathSnapshot = <<>>

\* the requests refreshGraph(treeId), made without options, in flight for a tree
RefreshOf(reqs, treeId) ==
  {req \in DOMAIN reqs : req.tree = treeId /\ req.focusNodeId = Null /\ ~req.selectRoot}
\* The requests for the graph of a tree that a step adds.
NewGraphReqs(treeId) ==
  {req \in DOMAIN graphReqs' :
     req.tree = treeId /\ MapGet(graphReqs, req, 0) < graphReqs'[req]}

\* C21, as stated: whenever a send completes, the graph of the send's tree is
\* requested from the server and the confirmed assistant node becomes the
\* active node.
C21_CompletionRefreshesAndSelects ==
  [][\A s \in 1..MaxSends :
       Ended(s, "completed") =>
         /\ activeNodeId' = sends[s].finalAssistantId
         /\ RefreshOf(graphReqs', sends[s].tree) \cap NewGraphReqs(sends[s].tree) # {}]_vars

\* C21, amended: whenever a send completes while its tree is the active tree,
\* the graph of that tree is requested from the server and the confirmed
\* assistant node becomes the active node; a send that completes for another
\* tree leaves the active node and the graph as they are and adds no request
\* for the graph of its tree.
C21_CompletionOnActiveTree ==
  [][\A s \in 1..MaxSends :
       Ended(s, "completed") =>
         IF sends[s].tree = activeTreeId
         THEN /\ activeNodeId' = sends[s].finalAssistantId
              /\ RefreshOf(graphReqs', sends[s].tree) \cap NewGraphReqs(sends[s].tree) # {}
              /\ ~GraphHas(graph', sends[s].userPendingId)
         ELSE /\ UNCHANGED <<activeNodeId, graph>>
              /\ NewGraphReqs(sends[s].tree) = {}]_vars

\* C21 witness: a send has completed on the tree on display, its assistant
\* node is the active node and the refresh of the tree is in flight.
C21_Witness ==
  /\ sends[1].st = "completed"
  /\ sends[1].tree = activeTreeId
  /\ activeNodeId = sends[1].finalAssistantId
  /\ RefreshOf(graphReqs, activeTreeId) # {}

\* C22: a node id enters a tree's unread set only in a step that completes a
\* send of that tree with that assistant id while that tree is not the active
\* tree.
C22_UnreadOnlyForOtherTree ==
  [][\A t \in TreeIds :
       \A n \in UnreadOf(unreadMap', t) \ UnreadOf(unreadMap, t) :
         \E s \in 1..MaxSends :
           /\ Ended(s, "completed")
           /\ sends[s].tree = t
           /\ sends[s].finalAssistantId = n
           /\ t # activeTreeId]_vars

\* C23: markNodeUnread and markNodeRead are idempotent: after either has been
\* applied to an unread map, applying it again with the same tree and node
\* gives the same map, and the unread set of every other tree is the one of
\* the map it was applied to.
C23_MarkIdempotent ==
  /\ call.fn = "markNodeUnread" =>
       LET once == markNodeUnread(call.before, call.tree, call.node)
       IN /\ unreadMap = once
          /\ markNodeUnread(once, call.tree, call.node) = once
          /\ \A t \in TreeIds \ {call.tree} : UnreadOf(once, t) = UnreadOf(call.before, t)
  /\ call.fn = "markNodeRead" =>
       LET once == markNodeRead(call.before, call.tree, call.node)
       IN /\ unreadMap = once
          /\ markNodeRead(once, call.tree, call.node) = once
          /\ \A t \in TreeIds \ {call.tree} : UnreadOf(once, t) = UnreadOf(call.before, t)

\* C23 witness: markNodeUnread has added a node to a tree's unread set of one
\* other node while the other tree has unread nodes too.
C23_Witness ==
  /\ call.fn = "markNodeUnread"
  /\ call.tree = "T1"
  /\ UnreadOf(call.before, "T1") = {SrvId(1)}
  /\ UnreadOf(unreadMap, "T1") = {SrvId(1), SrvId(2)}
  /\ UnreadOf(unreadMap, "T2") = {SrvId(3)}

\* C25: the result of layoutNodes has a position for every node id of the
\* node list it was given.
C25_EveryNodePlaced ==
  call.fn = "layoutNodes" =>
    \A r \in 1..Len(call.runs) :
      \A i \in 1..Len(call.data.nodes) : call.data.nodes[i].id \in DOMAIN call.runs[r]

\* C26: clamp returns a result inside [min, max] when min <= max, the value
\* itself when the value is inside that range, the midpoint (min + max) / 2
\* when min > max, and never a result outside the interval spanned by min and
\* max.
C26_ClampInRange ==
  call.fn = "clamp" /\ call.returned =>
    /\ call.min <= call.max => call.min <= call.result /\ call.result <= call.max
    /\ call.min <= call.value /\ call.value <= call.max => call.result = call.value
    /\ call.min > call.max => 2 * call.result = call.min + call.max
    /\ Min2(call.min, call.max) <= call.result
    /\ call.result <= Max2(call.min, call.max)

\* C26 witness: clamp has returned the midpoint of an empty range, away from
\* the value and from both ends.
C26_Witness ==
  /\ call.fn = "clamp"
  /\ call.returned
  /\ call.min > call.max
  /\ call.result \notin {call.value, call.min, call.max}

\* The lines of a text: the parts between its newlines, the part after the
\* last newline included.
RECURSIVE SplitLF(_, _, _)
SplitLF(text, cur, out) ==
  IF text = <<>> THEN Append(out, cur)
  ELSE IF Head(text) = LF THEN SplitLF(Tail(text), <<>>, Append(out, cur))
  ELSE SplitLF(Tail(text), Append(cur, Head(text)), out)

\* The frames of a list of lines: each line trimmed, the blank ones left
\* out, up to the first one processLine throws on.
RECURSIVE Processed(_, _)
Processed(lines, out) ==
  IF lines = <<>> THEN out
  ELSE IF Trim(Head(lines)) = <<>> THEN Processed(Tail(lines), out)
  ELSE IF Throws(Trim(Head(lines))) THEN Append(out, Trim(Head(lines)))
  ELSE Processed(Tail(lines), Append(out, Trim(Head(lines))))

\* The frames of a whole body, read from its content alone.
FramesOf(body) ==
  LET d == decode(FALSE, body, <<>>)
  IN Processed(SplitLF(d.text \o Flush(d.pend), <<>>, <<>>), <<>>)

\* The frames of the lines that a prefix of the body holds with their
\* terminating newline.
CompleteFramesOf(prefix) ==
  LET lines == SplitLF(decode(FALSE, prefix, <<>>).text, <<>>, <<>>)
  IN Processed(SubSeq(lines, 1, Len(lines) - 1), <<>>)

\* C27: the frames processed depend only on the body's content, not on its
\* split into reads: while the stream is open the frames processed are those
\* of the lines whose newline has arrived, each once and blank lines skipped,
\* and when the stream has ended they are the frames of the whole body, a
\* non-empty trailing line without a newline being the last.
C27_FramesFollowContent ==
  LET consumed == SubSeq(reader.body, 1, Len(reader.body) - Len(reader.rest))
  IN IF reader.done
     THEN reader.frames = FramesOf(reader.body)
     ELSE reader.frames = CompleteFramesOf(consumed)

\* C27 witness: a body of a two-byte character, a newline and a trailing
\* line, delivered one byte per read, has been read to its end.
C27_Witness ==
  /\ reader.done
  /\ reader.body = <<"c1", "c2", LF, "x">>
  /\ reader.reads = <<1, 1, 1, 1>>
  /\ reader.frames = << <<"c">>, <<"x">> >>

\* C28: a graph refresh of a tree leaves that tree's unread set equal to its
\* previous unread set intersected with the node ids of the fetched graph,
\* and leaves the unread set of every other tree unchanged.
C28_PruneOnRefresh ==
  [][\A req \in DOMAIN graphReqs :
       refreshGraph(req) =>
         LET validIds == SeqIds(ServerGraph(server, req.tree).nodes)
         IN /\ UnreadOf(unreadMap', req.tree) = UnreadOf(unreadMap, req.tree) \cap validIds
            /\ \A t \in TreeIds \ {req.tree} : UnreadOf(unreadMap', t) = UnreadOf(unreadMap, t)]_vars

\* C28 witness: the graph of T2 has been fetched and is on display while T1
\* has an unread reply.
C28_Witness ==
  /\ activeTreeId = "T2"
  /\ graphReqs = NoReqs
  /\ GraphHas(graph, SrvId(2))
  /\ UnreadOf(unreadMap, "T1") # {}

\* C29: for a non-empty node list with no edges, layoutNodes places the node
\* at index i of the list, before recentering, at column i mod 4 and row
\* floor(i / 4) of the grid.
C29_NoEdgesGrid ==
  call.fn = "layoutNodes" /\ Len(call.runs) > 0
    /\ Len(call.data.nodes) > 0 /\ Len(call.data.edges) = 0 =>
    /\ call.runs[1] = Recenter(PlaceNodes(call.data))
    /\ \A i \in 1..Len(call.data.nodes) :
         PlaceNodes(call.data)[call.data.nodes[i].id] =
           [x |-> ((i - 1) % GridColumns) * NODE_HORIZONTAL_GAP,
            y |-> ((i - 1) \div GridColumns) * NODE_VERTICAL_GAP]

\* C30: whenever the graph view is populated with a node set that shares no
\* node with the set it showed before, the empty set or the set of another
\* tree, the initial fit is armed and its frame requested, and no
\* follow-new-node target is set.
C30_FirstPopulationArmsFit ==
  [][(/\ view'.data # view.data
      /\ Len(view'.data.nodes) > 0
      /\ SeqIds(view.data.nodes) \cap SeqIds(view'.data.nodes) = {}) =>
       (/\ ~view'.initialViewDone
        /\ view'.fitRaf
        /\ view'.lastAddedId = Null
        /\ ~view'.followRaf)]_vars

\* C31: a Stop from the pane ends, as cancelled, the session registered
\* under the key on display and no other; a step cancels a session only if
\* that session is the one registered under the key on display (with no
\* session under that key nothing is aborted); every other send, every other
\* registry entry and the cached path under every other registered key are
\* as they were.
C31_StopAbortsDisplayedOnly ==
  [][/\ \A s \in 1..MaxSends :
          Ended(s, "cancelled") =>
            /\ currentKey \in DOMAIN streamSessions
            /\ streamSessions[currentKey] = s
     /\ handleStopStream =>
          LET session == streamSessions[currentKey]
          IN /\ sends'[session].st = "cancelled"
             /\ \A o \in 1..MaxSends : o # session => sends'[o] = sends[o]
             /\ \A k \in DOMAIN streamSessions \ {currentKey} :
                  /\ k \in DOMAIN streamSessions'
                  /\ streamSessions'[k] = streamSessions[k]
                  /\ k \in sendingKeys <=> k \in sendingKeys'
                  /\ k \in DOMAIN pathStore =>
                       /\ k \in DOMAIN pathStore'
                       /\ pathStore'[k] = pathStore[k]]_vars

\* C31 witness: sessions were open on two trees, the one on display was
\* stopped, and the other one, registered under its own key, is still open
\* with its cached path.
C31_Witness ==
  /\ sends[2].st = "cancelled" /\ sends[1].st = "open"
  /\ sends[1].tree # sends[2].tree
  /\ sends[1].streamKey \in DOMAIN streamSessions
  /\ streamSessions[sends[1].streamKey] = 1
  /\ sends[1].streamKey \in DOMAIN pathStore
  /\ sends[2].streamKey \notin DOMAIN streamSessions

\* C32: the step in which a stream completes on a tree that is not the
\* active tree leaves the active tree, the active node and the graph of the
\* page as they were and adds no graph request.
C32_CompletionElsewhereLeavesPage ==
  [][\A s \in 1..MaxSends :
       (Ended(s, "completed") /\ sends[s].tree # activeTreeId) =>
         /\ activeTreeId' = activeTreeId
         /\ activeNodeId' = activeNodeId
         /\ graph' = graph
         /\ graphReqs' = graphReqs]_vars

\* The nodes a graph of the given tree may hold: the nodes the service has
\* stored for the tree and the optimistic nodes of the sends made on it.
NodesOfTree(srv, snd, tree) ==
  {srv[i].id : i \in {j \in 1..Len(srv) : srv[j].tree = tree}} \cup
  {snd[s].userPendingId : s \in {o \in 1..MaxSends : snd[o].st # "idle" /\ snd[o].tree = tree}}

\* C33: whenever no graph request is in flight, the graph of the page is
\* empty if no tree is active and otherwise holds only nodes of the active
\* tree; and the response of a refresh requested for a tree that is not the
\* active tree when it arrives replaces neither the graph nor the active
\* node.
C33_GraphOfActiveTree ==
  [][/\ graphReqs' = NoReqs =>
          IF activeTreeId' = NoTree THEN graph' = EmptyGraph
          ELSE SeqIds(graph'.nodes) \subseteq NodesOfTree(server', sends', activeTreeId')
     /\ \A req \in DOMAIN graphReqs :
          (refreshGraph(req) /\ req.tree # activeTreeId) =>
            graph' = graph /\ activeNodeId' = activeNodeId]_vars

\* C34: every tree with an entry in the unread map is a tree of the list:
\* a deleted tree has no unread entry, whatever happens after the deletion,
\* the completion of a stream started on it before included.
C34_UnreadOnlyForListedTrees ==
  \A t \in DOMAIN unreadMap : \E i \in 1..Len(trees) : trees[i] = t

\* C35: once a session has processed an end frame that carries an assistant
\* id, no later step of that session (a further frame, a cancel, a transport
\* error, the close of the stream) removes or alters the path cached under
\* the migrated key (tree, assistant id).
C35_MigratedPathKept ==
  [][\A s \in 1..MaxSends :
       (/\ sends[s].st = "open" /\ sends[s].finalAssistantId # Null
        /\ FrameStep(s) \/ TerminalStep(s)) =>
         LET key == computeKey(sends[s].tree, sends[s].finalAssistantId)
         IN key \in DOMAIN pathStore =>
              /\ key \in DOMAIN pathStore'
              /\ pathStore'[key] = pathStore[key]]_vars

\* C36: the step in which a session fails leaves the composer as it is when
\* the composer holds text (send() had emptied it, so the text was typed
\* after the send), and when the session's key is not the key on display.
C36_FailureKeepsTypedText ==
  [][\A s \in 1..MaxSends :
       Ended(s, "failed") =>
         /\ input # <<>> => input' = input
         /\ sends[s].streamKey # activeKeyRef => input' = input]_vars

\* C37: no step of a session, from the step in which send() accepts the
\* message to the step in which the session ends (completed, failed or
\* cancelled), changes the cache entry of the base key (tree, parent node)
\* the send branched from: the entry is neither added, removed nor altered.
C37_BaseKeyUntouched ==
  [][\A s \in 1..MaxSends :
       (Accepted(s) \/ FrameStep(s) \/ TerminalStep(s)) =>
         LET base == sends'[s].baseKey
         IN /\ base \in DOMAIN pathStore <=> base \in DOMAIN pathStore'
            /\ base \in DOMAIN pathStore => pathStore'[base] = pathStore[base]]_vars

\* C38: at the end of every turn a key is in the sending set if and only if
\* the session registry holds a session under that key.
C38_SendingIffRegistered ==
  sendingKeys = DOMAIN streamSessions

\* The edges are parent pointers: no two edges have the same target (the
\* data model derives one edge per non-root node from its parent_id, and an
\* optimistic edge is added only for a target that has none).
ParentPointers(data) ==
  \A i \in 1..Len(data.edges), j \in 1..Len(data.edges) :
    data.edges[i].target = data.edges[j].target => i = j

\* The graph the page holds has one edge per target at most, and the walk of
\* layoutNodes over it ends.
PageGraphLaysOut == ParentPointers(graph) /\ LayoutEnds(graph)

\* C39: layoutNodes terminates on every node list and edge list it can be
\* given, i.e. whose edges are parent pointers, edges from a node outside the
\* list (an optimistic node under a parent the graph does not hold), self
\* edges and parent cycles included: the walk from the roots ends.
C39_LayoutTerminates ==
  (call.fn = "layoutNodes" /\ ParentPointers(call.data)) => LayoutEnds(call.data)

\* C39 witness: layoutNodes has returned for a root, its child and a node
\* added under that child, and the last one is on the third layer.
C39_Witness ==
  /\ call.fn = "layoutNodes"
  /\ Len(call.runs) > 0
  /\ ParentPointers(call.data)
  /\ Len(call.data.nodes) = 3
  /\ call.data.edges = << [source |-> SrvId(1), target |-> SrvId(2)],
                          [source |-> SrvId(2), target |-> SrvId(3)] >>
  /\ call.runs[1][SrvId(3)] = [x |-> 0, y |-> 160]
====
